---- MODULE Spec2Model ----
(***************************************************************************)
(* Wallet challenge/response login of grainlify's backend:                 *)
(* handlers.AuthHandler (Nonce, Verify) over the auth package's nonce      *)
(* store, signature verifier, consume-and-upsert transaction and token     *)
(* issuer.  The handlers are translated from                               *)
(* backend/internal/handlers/auth.go; the auth package they call is        *)
(* modelled from its specification.                                        *)
(*                                                                         *)
(* Strings that may be empty are sequences: <<>> is "", <<x>> a value.     *)
(***************************************************************************)
EXTENDS Integers, Sequences, FiniteSets, TLC

\* ---------------------------------------------------------------- bounds
MaxReqs == 2        \* Verify requests in one behaviour
MaxNonces == 2      \* nonce rows CreateNonce may write
MaxClock == 12      \* minutes after which the clock stops

\* ------------------------------------------------------ program constants
NonceTTL == 10      \* 10*time.Minute
TokenTTL == 15      \* 15*time.Minute
StatusOK == 200
StatusBadRequest == 400
StatusUnauthorized == 401
StatusInternalServerError == 500
StatusServiceUnavailable == 503

VARIABLES
    db,         \* h.db / h.db.Pool: "nil" or "pool"
    JWTSecret,  \* h.cfg.JWTSecret: <<>> is the empty secret
    now,        \* the wall clock, in minutes
    nonces,     \* the nonce table: a sequence of rows, row k holds token <<k>>
    users,      \* the users table: a sequence of [id, role]
    links,      \* the wallet links: a set of [walletType, address, userID]
    pc,         \* pc[r]: where Verify request r stands
    vreq,       \* vreq[r]: what request r carries past its signature check
    resp,       \* resp[r]: the response of Verify request r
    nonceResp,  \* the latest response of the Nonce operation
    probe,      \* a request and the outcome of Verify's checks on it
    TokenEncKeyB64,   \* h.cfg.TokenEncKeyB64
    github_accounts,  \* the linked-account table: a set of rows
    me,         \* the Me operation: its authenticated locals and latest response
    asked,      \* history: the wallet spellings Nonce and Verify requests were sent with
    error,      \* the argument of a call of getUserFriendlyError
    returned,   \* what that call returned
    tab         \* the state of a mounted ProfileTab and of its fetchUser

vars == <<db, JWTSecret, now, nonces, users, links, pc, vreq, resp, nonceResp, probe,
          TokenEncKeyB64, github_accounts, me, asked, error, returned, tab>>

store == <<nonces, users, links>>

\* what Nonce and Verify never touch
meVars == <<TokenEncKeyB64, github_accounts, me>>

\* the frontend, which no handler of the backend touches
uiVars == <<error, returned, tab>>

Reqs == 1..MaxReqs

\* --------------------------------------------------------------- inputs
RawWalletTypes == {"evm", "EVM", "solana", "bogus"}
\* "a0"/"A0": hex, not base58; "az": base58, not hex; "al": neither; "a": too short
RawAddresses == {<<"a", "0">>, <<"A", "0">>, <<"a", "z">>, <<"a", "l">>, <<"a">>}
\* both modelled wallet families recover the signer from the signature alone,
\* so requests leave public_key out (omitempty)
PublicKeys == {<<>>}
Separators == {"newline", "escaped", "space"}
\* <<k>> is the token of the k-th row CreateNonce writes; <<0>> is a well-formed
\* token that CreateNonce never issued
NonceTokens == {<<>>} \cup {<<k>> : k \in 0..MaxNonces}

\* ------------------------------------------- auth.NormalizeWalletType
WalletTypes == {"evm", "solana"}

LowerWalletType(raw) ==
    CASE raw = "EVM" -> "evm"
      [] OTHER -> raw

NormalizeWalletType(raw) ==
    LET w == LowerWalletType(raw)
    IN  IF w \in WalletTypes THEN [ok |-> TRUE, val |-> w]
        ELSE [ok |-> FALSE, val |-> ""]

\* ---------------------------------------------- auth.NormalizeAddress
AddrLen == 2
HexChars == {"0", "a", "b", "A", "B"}
Base58Chars == {"a", "b", "z", "A", "B"}

LowerChar(c) ==
    CASE c = "A" -> "a"
      [] c = "B" -> "b"
      [] OTHER -> c

\* upper and lower case are exchanged instead of lowered
SwapCaseChar(c) ==
    CASE c = "A" -> "a"
      [] c = "B" -> "b"
      [] c = "a" -> "A"
      [] c = "b" -> "B"
      [] OTHER -> c

NormalizeAddressSwapsCase(wType, raw) ==
    IF Len(raw) # AddrLen THEN [ok |-> FALSE, val |-> <<>>]
    ELSE IF wType = "evm"
    THEN IF \A i \in 1..Len(raw) : raw[i] \in HexChars
         THEN [ok |-> TRUE, val |-> [i \in 1..Len(raw) |-> SwapCaseChar(raw[i])]]
         ELSE [ok |-> FALSE, val |-> <<>>]
    ELSE IF \A i \in 1..Len(raw) : raw[i] \in Base58Chars
         THEN [ok |-> TRUE, val |-> raw]
         ELSE [ok |-> FALSE, val |-> <<>>]

NormalizeAddress(wType, raw) ==
    IF Len(raw) # AddrLen THEN [ok |-> FALSE, val |-> <<>>]
    ELSE IF wType = "evm"
    THEN IF \A i \in 1..Len(raw) : raw[i] \in HexChars
         THEN [ok |-> TRUE, val |-> [i \in 1..Len(raw) |-> LowerChar(raw[i])]]
         ELSE [ok |-> FALSE, val |-> <<>>]
    ELSE IF \A i \in 1..Len(raw) : raw[i] \in Base58Chars
         THEN [ok |-> TRUE, val |-> raw]
         ELSE [ok |-> FALSE, val |-> <<>>]

Identity(wType, addr) == [walletType |-> wType, address |-> addr]

\* every wallet identity a valid request can name
Identities ==
    {Identity(NormalizeWalletType(w).val, NormalizeAddress(NormalizeWalletType(w).val, a).val) :
        <<w, a>> \in {wa \in RawWalletTypes \X RawAddresses :
            /\ NormalizeWalletType(wa[1]).ok
            /\ NormalizeAddress(NormalizeWalletType(wa[1]).val, wa[2]).ok}}

\* --------------------------------- auth.LoginMessage / LegacyLoginMessage
Message(sep, nonce) == [text |-> "login", sep |-> sep, nonce |-> nonce]

LoginMessage(nonce) == Message("newline", nonce)

LegacyLoginMessage(nonce) == Message("escaped", nonce)

\* ---------------------------------------------- auth.VerifySignature
SigLen == 2

\* what the holder of a wallet's key produces over a message; flipped holds the
\* bytes that differ from what the key produced
Sign(id, msg) == <<[signer |-> id, msg |-> msg, flipped |-> {}]>>

\* the same signature with byte i flipped
FlipByte(sig, i) ==
    <<[sig[1] EXCEPT !.flipped = (@ \ {i}) \cup ({i} \ @)]>>

Signatures ==
    LET signed == {Sign(id, Message(s, n)) :
                      id \in Identities, s \in Separators, n \in NonceTokens \ {<<>>}}
    IN  {<<>>} \cup signed \cup {FlipByte(sig, i) : sig \in signed, i \in 1..SigLen}

\* the signature's bytes are not checked against the message and key
VerifySignatureIgnoresCorruption(wType, addr, msg, sig, pk) ==
    /\ sig # <<>>
    /\ sig[1].msg = msg
    /\ sig[1].signer = Identity(wType, addr)

\* the signer recovered from the signature is compared with the claimed address;
\* nothing is recovered from bytes the key did not produce
VerifySignature(wType, addr, msg, sig, pk) ==
    /\ sig # <<>>
    /\ sig[1].flipped = {}
    /\ sig[1].msg = msg
    /\ sig[1].signer = Identity(wType, addr)

\* --------------------------------------------------- auth.CreateNonce
\* a fresh random token, recorded with its owner and now+ttl
CreateNonce(ns, wType, addr, ttl, t) ==
    Append(ns, [nonce |-> <<Len(ns) + 1>>, walletType |-> wType, address |-> addr,
                expiresAt |-> t + ttl, used |-> FALSE])

\* ------------------------------------- auth.ConsumeNonceAndUpsertUser
DefaultRole == "contributor"
Faults == {"none", "begin", "upsert"}

\* (a) the row for token + wallet identity that is neither consumed nor expired
LiveNonceRows(ns, wType, addr, nonce, t) ==
    {k \in 1..Len(ns) :
        /\ ns[k].nonce = nonce
        /\ ns[k].walletType = wType
        /\ ns[k].address = addr
        /\ ~ns[k].used
        /\ t < ns[k].expiresAt}

\* (b) the compare-and-swap unconsumed -> consumed
MarkConsumed(ns, k) == [ns EXCEPT ![k].used = TRUE]

\* (c) reuse the User of an existing WalletLink, else create User and WalletLink
UpsertUserAlwaysCreates(us, ls, wType, addr) ==
    LET id == Len(us) + 1
    IN  [users |-> Append(us, [id |-> id, role |-> DefaultRole]),
         links |-> ls \cup {[walletType |-> wType, address |-> addr, userID |-> id]},
         user |-> [id |-> id, role |-> DefaultRole],
         wallet |-> [walletType |-> wType, address |-> addr, userID |-> id]]

UpsertUser(us, ls, wType, addr) ==
    LET found == {l \in ls : l.walletType = wType /\ l.address = addr}
    IN  IF found # {}
        THEN LET l == CHOOSE x \in found : TRUE
             IN  [users |-> us, links |-> ls, user |-> us[l.userID], wallet |-> l]
        ELSE LET id == Len(us) + 1
             IN  [users |-> Append(us, [id |-> id, role |-> DefaultRole]),
                  links |-> ls \cup {[walletType |-> wType, address |-> addr, userID |-> id]},
                  user |-> [id |-> id, role |-> DefaultRole],
                  wallet |-> [walletType |-> wType, address |-> addr, userID |-> id]]

NoUser == [id |-> 0, role |-> ""]
NoWallet == [walletType |-> "", address |-> <<>>, userID |-> 0]

TxFailed(err, ns, us, ls) ==
    [err |-> err, nonces |-> ns, users |-> us, links |-> ls, user |-> NoUser, wallet |-> NoWallet]

\* a failed upsert commits the consume step alone
ConsumeBurnsNonceOnFailure(ns, us, ls, wType, addr, nonce, pk, t, fault) ==
    LET rows == LiveNonceRows(ns, wType, addr, nonce, t)
    IN  IF fault = "begin" THEN TxFailed("storage_error", ns, us, ls)
        ELSE IF rows = {} THEN TxFailed("invalid_or_expired_nonce", ns, us, ls)
        ELSE LET marked == MarkConsumed(ns, CHOOSE k \in rows : TRUE)
                 up == UpsertUser(us, ls, wType, addr)
             IN  IF fault = "upsert" THEN TxFailed("storage_error", marked, us, ls)
                 ELSE [err |-> "", nonces |-> marked, users |-> up.users, links |-> up.links,
                       user |-> up.user, wallet |-> up.wallet]

\* the transaction: commits when every step succeeded, rolls back otherwise
ConsumeNonceAndUpsertUser(ns, us, ls, wType, addr, nonce, pk, t, fault) ==
    LET rows == LiveNonceRows(ns, wType, addr, nonce, t)
    IN  IF fault = "begin" THEN TxFailed("storage_error", ns, us, ls)
        ELSE IF rows = {} THEN TxFailed("invalid_or_expired_nonce", ns, us, ls)
        ELSE LET marked == MarkConsumed(ns, CHOOSE k \in rows : TRUE)
                 up == UpsertUser(us, ls, wType, addr)
             IN  IF fault = "upsert" THEN TxFailed("storage_error", ns, us, ls)
                 ELSE [err |-> "", nonces |-> marked, users |-> up.users, links |-> up.links,
                       user |-> up.user, wallet |-> up.wallet]

\* ------------------------------------------------------- auth.IssueJWT
IssueJWT(secret, userID, role, wType, addr, ttl, t, signOK) ==
    IF signOK
    THEN <<[userID |-> userID, role |-> role, walletType |-> wType, address |-> addr,
            exp |-> t + ttl, key |-> secret]>>
    ELSE <<>>

\* ------------------------------------------------ handlers: responses
NoToken == <<>>
\* dbAccess, committed and fault are history: whether the request reached storage,
\* whether its transaction committed, and the storage fault the transaction met
NoResp ==
    [status |-> 0, error |-> "", token |-> NoToken, user |-> NoUser,
     wallet |-> Identity("", <<>>), dbAccess |-> FALSE, committed |-> FALSE,
     fault |-> "none"]

\* c.Status(status).JSON(fiber.Map{"error": code})
ErrorJSON(status, code) == [NoResp EXCEPT !.status = status, !.error = code]

NoMessage == Message("", <<>>)
NoNonceResp ==
    [status |-> 0, error |-> "", nonce |-> <<>>, message |-> NoMessage,
     expires_at |-> 0, dbAccess |-> FALSE]

NonceErrorJSON(status, code, access) ==
    [NoNonceResp EXCEPT !.status = status, !.error = code, !.dbAccess = access]

\* ------------------------------------------------- AuthHandler.Nonce
Passed(wType, addr) == [status |-> 0, error |-> "", walletType |-> wType, address |-> addr]
Rejected(status, code) == [status |-> status, error |-> code, walletType |-> "", address |-> <<>>]

\* the address is validated, but the request's own spelling is passed on
NonceChecksKeepsRawAddress(dbv, bodyOK, rawWT, rawAddr) ==
    LET wt == NormalizeWalletType(rawWT)
        ad == NormalizeAddress(wt.val, rawAddr)
    IN  IF dbv = "nil" THEN Rejected(StatusServiceUnavailable, "db_not_configured")
        ELSE IF ~bodyOK THEN Rejected(StatusBadRequest, "invalid_json")
        ELSE IF ~wt.ok THEN Rejected(StatusBadRequest, "invalid_wallet_type")
        ELSE IF ~ad.ok THEN Rejected(StatusBadRequest, "invalid_address")
        ELSE Passed(wt.val, rawAddr)

\* everything Nonce decides before it reaches storage
NonceChecks(dbv, bodyOK, rawWT, rawAddr) ==
    LET wt == NormalizeWalletType(rawWT)
        ad == NormalizeAddress(wt.val, rawAddr)
    IN  IF dbv = "nil" THEN Rejected(StatusServiceUnavailable, "db_not_configured")
        ELSE IF ~bodyOK THEN Rejected(StatusBadRequest, "invalid_json")
        ELSE IF ~wt.ok THEN Rejected(StatusBadRequest, "invalid_wallet_type")
        ELSE IF ~ad.ok THEN Rejected(StatusBadRequest, "invalid_address")
        ELSE Passed(wt.val, ad.val)

\* the outcomes of NonceChecks over every request, per server configuration
NonceEntries ==
    [dbv \in {"nil", "pool"} |->
        {NonceChecks(dbv, bodyOK, rawWT, rawAddr) :
            bodyOK \in BOOLEAN, rawWT \in RawWalletTypes, rawAddr \in RawAddresses}]

\* CreateNonce runs before the address error is looked at
NonceFinishCreatesFirst(chk, createOK, ns, t) ==
    LET created == CreateNonce(ns, chk.walletType, chk.address, NonceTTL, t)
        n == created[Len(created)]
    IN  IF chk.error = "invalid_address"
        THEN [resp |-> NonceErrorJSON(chk.status, chk.error, TRUE), nonces |-> created]
        ELSE IF chk.error # ""
        THEN [resp |-> NonceErrorJSON(chk.status, chk.error, FALSE), nonces |-> ns]
        ELSE IF ~createOK
        THEN [resp |-> NonceErrorJSON(StatusInternalServerError, "nonce_create_failed", TRUE),
              nonces |-> ns]
        ELSE [resp |-> [status |-> StatusOK, error |-> "", nonce |-> n.nonce,
                        message |-> LoginMessage(n.nonce), expires_at |-> n.expiresAt,
                        dbAccess |-> TRUE],
              nonces |-> created]

\* the ttl is given in hours
NonceFinishLongTTL(chk, createOK, ns, t) ==
    LET created == CreateNonce(ns, chk.walletType, chk.address, NonceTTL * 60, t)
        n == created[Len(created)]
    IN  IF chk.error # ""
        THEN [resp |-> NonceErrorJSON(chk.status, chk.error, FALSE), nonces |-> ns]
        ELSE IF ~createOK
        THEN [resp |-> NonceErrorJSON(StatusInternalServerError, "nonce_create_failed", TRUE),
              nonces |-> ns]
        ELSE [resp |-> [status |-> StatusOK, error |-> "", nonce |-> n.nonce,
                        message |-> LoginMessage(n.nonce), expires_at |-> n.expiresAt,
                        dbAccess |-> TRUE],
              nonces |-> created]

\* issuing a nonce retires the wallet's earlier ones
NonceFinishSupersedes(chk, createOK, ns, t) ==
    LET retired == [k \in 1..Len(ns) |->
                      IF ns[k].walletType = chk.walletType /\ ns[k].address = chk.address
                      THEN [ns[k] EXCEPT !.used = TRUE]
                      ELSE ns[k]]
        created == CreateNonce(retired, chk.walletType, chk.address, NonceTTL, t)
        n == created[Len(created)]
    IN  IF chk.error # ""
        THEN [resp |-> NonceErrorJSON(chk.status, chk.error, FALSE), nonces |-> ns]
        ELSE IF ~createOK
        THEN [resp |-> NonceErrorJSON(StatusInternalServerError, "nonce_create_failed", TRUE),
              nonces |-> ns]
        ELSE [resp |-> [status |-> StatusOK, error |-> "", nonce |-> n.nonce,
                        message |-> LoginMessage(n.nonce), expires_at |-> n.expiresAt,
                        dbAccess |-> TRUE],
              nonces |-> created]

\* the message is rendered with a separator Verify does not try
NonceFinishOtherRendering(chk, createOK, ns, t) ==
    LET created == CreateNonce(ns, chk.walletType, chk.address, NonceTTL, t)
        n == created[Len(created)]
    IN  IF chk.error # ""
        THEN [resp |-> NonceErrorJSON(chk.status, chk.error, FALSE), nonces |-> ns]
        ELSE IF ~createOK
        THEN [resp |-> NonceErrorJSON(StatusInternalServerError, "nonce_create_failed", TRUE),
              nonces |-> ns]
        ELSE [resp |-> [status |-> StatusOK, error |-> "", nonce |-> n.nonce,
                        message |-> Message("space", n.nonce), expires_at |-> n.expiresAt,
                        dbAccess |-> TRUE],
              nonces |-> created]

\* the response, and the nonce table CreateNonce leaves
NonceFinish(chk, createOK, ns, t) ==
    LET created == CreateNonce(ns, chk.walletType, chk.address, NonceTTL, t)
        n == created[Len(created)]
    IN  IF chk.error # ""
        THEN [resp |-> NonceErrorJSON(chk.status, chk.error, FALSE), nonces |-> ns]
        ELSE IF ~createOK
        THEN [resp |-> NonceErrorJSON(StatusInternalServerError, "nonce_create_failed", TRUE),
              nonces |-> ns]
        ELSE [resp |-> [status |-> StatusOK, error |-> "", nonce |-> n.nonce,
                        message |-> LoginMessage(n.nonce), expires_at |-> n.expiresAt,
                        dbAccess |-> TRUE],
              nonces |-> created]

\* the handler on a request whose checks came out as chk
NonceOn(chk, createOK) ==
    LET out == NonceFinish(chk, createOK, nonces, now)
    IN  /\ Len(out.nonces) <= MaxNonces
        /\ nonces' = out.nonces
        /\ nonceResp' = out.resp
        /\ UNCHANGED <<db, JWTSecret, now, users, links, pc, vreq, resp, probe, meVars>>

Nonce ==
    /\ \E chk \in NonceEntries[db], createOK \in BOOLEAN : NonceOn(chk, createOK)
    /\ UNCHANGED <<asked, uiVars>>

\* ------------------------------------------------ AuthHandler.Verify
VerifyRequest(rawWT, rawAddr, nonce, sig, pk) ==
    [WalletType |-> rawWT, Address |-> rawAddr, Nonce |-> nonce, Signature |-> sig,
     PublicKey |-> pk]

VerifyRequests ==
    {VerifyRequest(w, a, n, s, k) :
        w \in RawWalletTypes, a \in RawAddresses, n \in NonceTokens, s \in Signatures,
        k \in PublicKeys}

\* only the canonical rendering is tried
SigOKCanonicalOnly(wType, addr, nonce, sig, pk) ==
    VerifySignature(wType, addr, LoginMessage(nonce), sig, pk)

\* the check of sigOK is skipped
SigOKUnchecked(wType, addr, nonce, sig, pk) == TRUE

\* the loop over msgs: success on any rendering sets sigOK
SigOK(wType, addr, nonce, sig, pk) ==
    LET msgs == <<LoginMessage(nonce), LegacyLoginMessage(nonce)>>
    IN  \E i \in 1..Len(msgs) : VerifySignature(wType, addr, msgs[i], sig, pk)

\* the check of cfg.JWTSecret is missing
VerifyChecksNoJWTCheck(dbv, secret, bodyOK, req) ==
    LET wt == NormalizeWalletType(req.WalletType)
        ad == NormalizeAddress(wt.val, req.Address)
    IN  IF dbv = "nil" THEN Rejected(StatusServiceUnavailable, "db_not_configured")
        ELSE IF ~bodyOK THEN Rejected(StatusBadRequest, "invalid_json")
        ELSE IF ~wt.ok THEN Rejected(StatusBadRequest, "invalid_wallet_type")
        ELSE IF ~ad.ok THEN Rejected(StatusBadRequest, "invalid_address")
        ELSE IF req.Nonce = <<>> \/ req.Signature = <<>>
        THEN Rejected(StatusBadRequest, "missing_nonce_or_signature")
        ELSE IF ~SigOK(wt.val, ad.val, req.Nonce, req.Signature, req.PublicKey)
        THEN Rejected(StatusUnauthorized, "invalid_signature")
        ELSE Passed(wt.val, ad.val)

\* the empty nonce or signature is looked for before the wallet is parsed
VerifyChecksMissingFirst(dbv, secret, bodyOK, req) ==
    LET wt == NormalizeWalletType(req.WalletType)
        ad == NormalizeAddress(wt.val, req.Address)
    IN  IF dbv = "nil" THEN Rejected(StatusServiceUnavailable, "db_not_configured")
        ELSE IF secret = <<>> THEN Rejected(StatusServiceUnavailable, "jwt_not_configured")
        ELSE IF ~bodyOK THEN Rejected(StatusBadRequest, "invalid_json")
        ELSE IF req.Nonce = <<>> \/ req.Signature = <<>>
        THEN Rejected(StatusBadRequest, "missing_nonce_or_signature")
        ELSE IF ~wt.ok THEN Rejected(StatusBadRequest, "invalid_wallet_type")
        ELSE IF ~ad.ok THEN Rejected(StatusBadRequest, "invalid_address")
        ELSE IF ~SigOK(wt.val, ad.val, req.Nonce, req.Signature, req.PublicKey)
        THEN Rejected(StatusUnauthorized, "invalid_signature")
        ELSE Passed(wt.val, ad.val)

\* everything Verify decides before it reaches storage
VerifyChecks(dbv, secret, bodyOK, req) ==
    LET wt == NormalizeWalletType(req.WalletType)
        ad == NormalizeAddress(wt.val, req.Address)
    IN  IF dbv = "nil" THEN Rejected(StatusServiceUnavailable, "db_not_configured")
        ELSE IF secret = <<>> THEN Rejected(StatusServiceUnavailable, "jwt_not_configured")
        ELSE IF ~bodyOK THEN Rejected(StatusBadRequest, "invalid_json")
        ELSE IF ~wt.ok THEN Rejected(StatusBadRequest, "invalid_wallet_type")
        ELSE IF ~ad.ok THEN Rejected(StatusBadRequest, "invalid_address")
        ELSE IF req.Nonce = <<>> \/ req.Signature = <<>>
        THEN Rejected(StatusBadRequest, "missing_nonce_or_signature")
        ELSE IF ~SigOK(wt.val, ad.val, req.Nonce, req.Signature, req.PublicKey)
        THEN Rejected(StatusUnauthorized, "invalid_signature")
        ELSE Passed(wt.val, ad.val)

NoReq ==
    [walletType |-> "", address |-> <<>>, nonce |-> <<>>, publicKey |-> <<>>,
     genuine |-> FALSE, overlapped |-> {}]

\* whether the request's signature was made with the key of the wallet it names,
\* over the canonical or the legacy rendering of the nonce it submits
Genuine(wType, addr, nonce, sig) ==
    \E sep \in {"newline", "escaped"} : sig = Sign(Identity(wType, addr), Message(sep, nonce))

\* Verify up to its signature check: the response when it returns there (a request
\* refused for its signature keeps, as history, the wallet and nonce it named), else
\* what the request carries on to the transaction
VerifyEntry(dbv, secret, bodyOK, req) ==
    LET chk == VerifyChecks(dbv, secret, bodyOK, req)
    IN  IF chk.error = "invalid_signature"
        THEN [resp |-> ErrorJSON(chk.status, chk.error),
              vreq |-> [NoReq EXCEPT !.walletType = NormalizeWalletType(req.WalletType).val,
                                     !.address = NormalizeAddress(
                                         NormalizeWalletType(req.WalletType).val,
                                         req.Address).val,
                                     !.nonce = req.Nonce]]
        ELSE IF chk.error # ""
        THEN [resp |-> ErrorJSON(chk.status, chk.error), vreq |-> NoReq]
        ELSE [resp |-> NoResp,
              vreq |-> [walletType |-> chk.walletType, address |-> chk.address,
                        nonce |-> req.Nonce, publicKey |-> req.PublicKey,
                        genuine |-> Genuine(chk.walletType, chk.address, req.Nonce,
                                            req.Signature),
                        overlapped |-> {}]]

\* the outcomes of VerifyEntry over every request, per server configuration
VerifyEntries ==
    [dbv \in {"nil", "pool"}, secret \in {<<>>, <<"secret">>} |->
        {VerifyEntry(dbv, secret, bodyOK, req) : bodyOK \in BOOLEAN, req \in VerifyRequests}]

\* history: the other requests that stand between signature check and transaction
InFlight(r) == {q \in Reqs \ {r} : pc[q] = "consume"}

\* tokens are random (>= 128 bits): a client submits one it was issued, or one
\* that is never issued, but cannot guess one before it is issued
Known(nonce) == nonce \in {<<>>, <<0>>} \cup {<<k>> : k \in 1..Len(nonces)}

\* request r up to its signature check, on a request that came out as e
VerifyBeginOn(r, e) ==
    /\ pc[r] = "idle"
    /\ \A q \in Reqs : q < r => pc[q] # "idle"
    /\ Known(e.vreq.nonce)
    /\ pc' = [pc EXCEPT ![r] = IF e.resp = NoResp THEN "consume" ELSE "done"]
    /\ resp' = [resp EXCEPT ![r] = e.resp]
    /\ vreq' = [vreq EXCEPT ![r] =
            IF e.resp = NoResp THEN [e.vreq EXCEPT !.overlapped = InFlight(r)]
            ELSE e.vreq]
    /\ UNCHANGED <<db, JWTSecret, now, nonces, users, links, nonceResp, probe, meVars>>

VerifyBegin(r) ==
    /\ \E e \in VerifyEntries[db, JWTSecret] : VerifyBeginOn(r, e)
    /\ UNCHANGED <<asked, uiVars>>

\* the error text is compared with the wrong string
VerifyFinishWrongErrorText(res, secret, t, signOK) ==
    IF res.err # ""
    THEN ErrorJSON(StatusInternalServerError, "auth_failed")
    ELSE LET token == IssueJWT(secret, res.user.id, res.user.role, res.wallet.walletType,
                               res.wallet.address, TokenTTL, t, signOK)
         IN  IF token = NoToken
             THEN ErrorJSON(StatusInternalServerError, "token_issue_failed")
             ELSE [NoResp EXCEPT !.status = StatusOK, !.token = token, !.user = res.user,
                   !.wallet = Identity(res.wallet.walletType, res.wallet.address)]

\* the transaction's error is not looked at
VerifyFinishIgnoresError(res, secret, t, signOK) ==
    LET token == IssueJWT(secret, res.user.id, res.user.role, res.wallet.walletType,
                          res.wallet.address, TokenTTL, t, signOK)
    IN  IF token = NoToken
        THEN ErrorJSON(StatusInternalServerError, "token_issue_failed")
        ELSE [NoResp EXCEPT !.status = StatusOK, !.token = token, !.user = res.user,
              !.wallet = Identity(res.wallet.walletType, res.wallet.address)]

\* the token is issued from a zero-valued user instead of res.User
VerifyFinishZeroUser(res, secret, t, signOK) ==
    IF res.err # ""
    THEN IF res.err = "invalid_or_expired_nonce"
         THEN ErrorJSON(StatusUnauthorized, "invalid_or_expired_nonce")
         ELSE ErrorJSON(StatusInternalServerError, "auth_failed")
    ELSE LET token == IssueJWT(secret, NoUser.id, NoUser.role, res.wallet.walletType,
                               res.wallet.address, TokenTTL, t, signOK)
         IN  IF token = NoToken
             THEN ErrorJSON(StatusInternalServerError, "token_issue_failed")
             ELSE [NoResp EXCEPT !.status = StatusOK, !.token = token, !.user = res.user,
                   !.wallet = Identity(res.wallet.walletType, res.wallet.address)]

\* a failure of IssueJWT is reported like a failure of the transaction
VerifyFinishTokenErrorAsAuthFailed(res, secret, t, signOK) ==
    IF res.err # ""
    THEN IF res.err = "invalid_or_expired_nonce"
         THEN ErrorJSON(StatusUnauthorized, "invalid_or_expired_nonce")
         ELSE ErrorJSON(StatusInternalServerError, "auth_failed")
    ELSE LET token == IssueJWT(secret, res.user.id, res.user.role, res.wallet.walletType,
                               res.wallet.address, TokenTTL, t, signOK)
         IN  IF token = NoToken
             THEN ErrorJSON(StatusInternalServerError, "auth_failed")
             ELSE [NoResp EXCEPT !.status = StatusOK, !.token = token, !.user = res.user,
                   !.wallet = Identity(res.wallet.walletType, res.wallet.address)]

\* from the transaction's result to the response
VerifyFinish(res, secret, t, signOK) ==
    IF res.err # ""
    THEN IF res.err = "invalid_or_expired_nonce"
         THEN ErrorJSON(StatusUnauthorized, "invalid_or_expired_nonce")
         ELSE ErrorJSON(StatusInternalServerError, "auth_failed")
    ELSE LET token == IssueJWT(secret, res.user.id, res.user.role, res.wallet.walletType,
                               res.wallet.address, TokenTTL, t, signOK)
         IN  IF token = NoToken
             THEN ErrorJSON(StatusInternalServerError, "token_issue_failed")
             ELSE [NoResp EXCEPT !.status = StatusOK, !.token = token, !.user = res.user,
                   !.wallet = Identity(res.wallet.walletType, res.wallet.address)]

VerifyConsume(r) ==
    /\ pc[r] = "consume"
    /\ \E fault \in Faults, signOK \in BOOLEAN :
        LET res == ConsumeNonceAndUpsertUser(nonces, users, links, vreq[r].walletType,
                        vreq[r].address, vreq[r].nonce, vreq[r].publicKey, now, fault)
        IN  /\ nonces' = res.nonces
            /\ users' = res.users
            /\ links' = res.links
            /\ resp' = [resp EXCEPT ![r] =
                    [VerifyFinish(res, JWTSecret, now, signOK) EXCEPT
                        !.dbAccess = TRUE, !.committed = (res.err = ""),
                        !.fault = IF res.err = "storage_error" THEN fault ELSE "none"]]
    /\ pc' = [pc EXCEPT ![r] = "done"]
    /\ UNCHANGED <<db, JWTSecret, now, vreq, nonceResp, probe, meVars, asked, uiVars>>

\* ------------------------------------------------------ auth.ParseJWT
\* what the bearer-token middleware trusts: the claims of a token signed with the
\* server's secret whose expiry has not passed
NoClaims == [userID |-> 0, role |-> "", walletType |-> "", address |-> <<>>]

ParseJWT(secret, token, t) ==
    IF token = NoToken THEN [ok |-> FALSE, claims |-> NoClaims]
    ELSE IF token[1].key # secret \/ t >= token[1].exp
    THEN [ok |-> FALSE, claims |-> NoClaims]
    ELSE [ok |-> TRUE,
          claims |-> [userID |-> token[1].userID, role |-> token[1].role,
                      walletType |-> token[1].walletType, address |-> token[1].address]]

\* -------------------------------------------------------- google/uuid
\* the string form of user id k is UUIDs[k]
UUIDs == <<"uuid-1", "uuid-2", "uuid-3", "uuid-4">>

UserIDString(id) == UUIDs[id]

uuidParse(s) ==
    IF \E k \in DOMAIN UUIDs : UUIDs[k] = s
    THEN [ok |-> TRUE, val |-> CHOOSE k \in DOMAIN UUIDs : UUIDs[k] = s]
    ELSE [ok |-> FALSE, val |-> 0]

\* c.Locals(auth.LocalUserID), c.Locals(auth.LocalRole); "" when the local is unset
NoLocals == [userID |-> "", role |-> ""]

\* --------------------------------------------- github.GetLinkedAccount
AccessTokens == {"gho_live"}
EncKeys == {"key-1", "key-2"}

\* authenticated encryption: the ciphertext opens under the key that sealed it,
\* and only while it is intact
Encrypt(key, plaintext) == [key |-> key, plaintext |-> plaintext, intact |-> TRUE]

Tamper(ct) == [ct EXCEPT !.intact = FALSE]

\* no integrity check: a ciphertext that does not open yields garbage
DecryptUnauthenticated(key, ct) ==
    IF ct.key = key /\ ct.intact
    THEN [err |-> "", plaintext |-> ct.plaintext]
    ELSE [err |-> "", plaintext |-> "garbage"]

Decrypt(key, ct) ==
    IF ct.key = key /\ ct.intact
    THEN [err |-> "", plaintext |-> ct.plaintext]
    ELSE [err |-> "decryption_failed", plaintext |-> ""]

\* nullable columns are sequences: <<>> is NULL
AccountRows ==
    [user_id : {1, 2},
     login : {<<>>, <<"octocat">>},
     avatar_url : {<<>>, <<"">>, <<"cached.png">>},
     access_token : {<<>>} \cup {<<Encrypt(k, t)>> : k \in EncKeys, t \in AccessTokens}
                           \cup {<<Tamper(Encrypt(k, t))>> : k \in EncKeys, t \in AccessTokens}]

AccountTables == {{}} \cup {{a} : a \in AccountRows}

RowsOfUser(accounts, userID) == {a \in accounts : a.user_id = userID}

GetLinkedAccount(accounts, userID, key, fault) ==
    LET rows == RowsOfUser(accounts, userID)
    IN  IF fault THEN [err |-> "storage_error", AccessToken |-> ""]
        ELSE IF rows = {} THEN [err |-> "not_linked", AccessToken |-> ""]
        ELSE LET a == CHOOSE x \in rows : TRUE
             IN  IF a.access_token = <<>> THEN [err |-> "not_linked", AccessToken |-> ""]
                 ELSE LET d == Decrypt(key, a.access_token[1])
                      IN  [err |-> d.err, AccessToken |-> d.plaintext]

\* ------------------------------------------------ github.Client.GetUser
NoProfile ==
    [Login |-> "", AvatarURL |-> "", Name |-> "", Email |-> "", Location |-> "",
     Bio |-> "", Blog |-> ""]

AllProfiles ==
    [Login : {"octocat"}, AvatarURL : {"live.png"}, Name : {"", "Octo Cat"},
     Email : {"", "octo@cat"}, Location : {"", "Sea"}, Bio : {"", "bio"},
     Blog : {"", "blog.cat"}]

OptionalFields == {"Name", "Email", "Location", "Bio", "Blog"}

\* the profiles with none, one or all of the optional fields
Profiles ==
    {p \in AllProfiles : Cardinality({f \in OptionalFields : p[f] # ""}) \in {0, 1, 5}}

\* what the provider answers to a token it knows: an error, or a profile
GetUserResults ==
    {[err |-> TRUE, user |-> NoProfile]} \cup {[err |-> FALSE, user |-> p] : p \in Profiles}

GetUser(token, answer) ==
    IF token \in AccessTokens THEN answer ELSE [err |-> TRUE, user |-> NoProfile]

\* --------------------------------------------------- AuthHandler.Me
EmptyMap == <<>>

\* githubMap[key] = value, if value != ""
Optional(key, value) == IF value # "" THEN key :> value ELSE EmptyMap

LiveGithubMap(ghUser) ==
    ("login" :> ghUser.Login) @@ ("avatar_url" :> ghUser.AvatarURL)
        @@ Optional("name", ghUser.Name) @@ Optional("email", ghUser.Email)
        @@ Optional("location", ghUser.Location) @@ Optional("bio", ghUser.Bio)
        @@ Optional("website", ghUser.Blog)

\* SELECT login, avatar_url FROM github_accounts WHERE user_id = $1, scanned into
\* two nil pointers; the error of Scan is dropped
CacheQuery(accounts, userID, scanOK) ==
    LET rows == RowsOfUser(accounts, userID)
    IN  IF ~scanOK \/ rows = {} THEN [githubLogin |-> <<>>, avatarURL |-> <<>>]
        ELSE LET a == CHOOSE x \in rows : TRUE
             IN  [githubLogin |-> a.login, avatarURL |-> a.avatar_url]

\* the cached avatar is copied whenever the column is not NULL
CachedResponseKeepsEmptyAvatar(response, cache) ==
    IF cache.githubLogin # <<>>
    THEN ("github" :> (("login" :> cache.githubLogin[1])
                        @@ (IF cache.avatarURL # <<>>
                            THEN "avatar_url" :> cache.avatarURL[1]
                            ELSE EmptyMap)))
            @@ response
    ELSE response

\* the response after the fallback to the cached fields
CachedResponse(response, cache) ==
    IF cache.githubLogin # <<>>
    THEN ("github" :> (("login" :> cache.githubLogin[1])
                        @@ (IF cache.avatarURL # <<>>
                            THEN Optional("avatar_url", cache.avatarURL[1])
                            ELSE EmptyMap)))
            @@ response
    ELSE response

\* history next to the response: the tokens GetUser was called with, whether the
\* cached row was queried, the error of GetLinkedAccount, the table as left, and
\* the log records written: the handler has no logger and no path writes one
MeOut(status, body, sent, cacheRead, linkErr, accounts) ==
    [status |-> status, body |-> body, providerToken |-> sent, cacheRead |-> cacheRead,
     linkErr |-> linkErr, accounts |-> accounts, logs |-> <<>>]

\* a failing provider call fails the request
MeHandlerFailsOnProviderError(dbv, locals, accounts, key, linkFault, answer, scanOK) ==
    LET userID == uuidParse(locals.userID)
        response == ("id" :> locals.userID) @@ ("role" :> locals.role)
        linkedAccount == GetLinkedAccount(accounts, userID.val, key, linkFault)
        ghUser == GetUser(linkedAccount.AccessToken, answer)
        cache == CacheQuery(accounts, userID.val, scanOK)
    IN  IF dbv = "nil"
        THEN MeOut(StatusServiceUnavailable, "error" :> "db_not_configured", <<>>, FALSE,
                   "", accounts)
        ELSE IF ~userID.ok
        THEN MeOut(StatusUnauthorized, "error" :> "invalid_user", <<>>, FALSE, "", accounts)
        ELSE IF linkedAccount.err = ""
        THEN IF ~ghUser.err
             THEN MeOut(StatusOK, ("github" :> LiveGithubMap(ghUser.user)) @@ response,
                        <<linkedAccount.AccessToken>>, FALSE, "", accounts)
             ELSE MeOut(StatusInternalServerError, "error" :> "github_unavailable",
                        <<linkedAccount.AccessToken>>, FALSE, "", accounts)
        ELSE MeOut(StatusOK, CachedResponse(response, cache), <<>>, TRUE,
                   linkedAccount.err, accounts)


\* a decryption failure is reported in the response
MeHandlerReportsDecryption(dbv, locals, accounts, key, linkFault, answer, scanOK) ==
    LET userID == uuidParse(locals.userID)
        response == ("id" :> locals.userID) @@ ("role" :> locals.role)
        linkedAccount == GetLinkedAccount(accounts, userID.val, key, linkFault)
        ghUser == GetUser(linkedAccount.AccessToken, answer)
        cache == CacheQuery(accounts, userID.val, scanOK)
    IN  IF dbv = "nil"
        THEN MeOut(StatusServiceUnavailable, "error" :> "db_not_configured", <<>>, FALSE,
                   "", accounts)
        ELSE IF ~userID.ok
        THEN MeOut(StatusUnauthorized, "error" :> "invalid_user", <<>>, FALSE, "", accounts)
        ELSE IF linkedAccount.err = ""
        THEN IF ~ghUser.err
             THEN MeOut(StatusOK, ("github" :> LiveGithubMap(ghUser.user)) @@ response,
                        <<linkedAccount.AccessToken>>, FALSE, "", accounts)
             ELSE MeOut(StatusOK, CachedResponse(response, cache),
                        <<linkedAccount.AccessToken>>, TRUE, "", accounts)
        ELSE MeOut(StatusOK,
                   IF linkedAccount.err = "decryption_failed"
                   THEN ("github_error" :> linkedAccount.err) @@ CachedResponse(response, cache)
                   ELSE CachedResponse(response, cache),
                   <<>>, TRUE, linkedAccount.err, accounts)


\* the linked account is serialized whole into the github object
MeHandlerLeaksToken(dbv, locals, accounts, key, linkFault, answer, scanOK) ==
    LET userID == uuidParse(locals.userID)
        response == ("id" :> locals.userID) @@ ("role" :> locals.role)
        linkedAccount == GetLinkedAccount(accounts, userID.val, key, linkFault)
        ghUser == GetUser(linkedAccount.AccessToken, answer)
        cache == CacheQuery(accounts, userID.val, scanOK)
    IN  IF dbv = "nil"
        THEN MeOut(StatusServiceUnavailable, "error" :> "db_not_configured", <<>>, FALSE,
                   "", accounts)
        ELSE IF ~userID.ok
        THEN MeOut(StatusUnauthorized, "error" :> "invalid_user", <<>>, FALSE, "", accounts)
        ELSE IF linkedAccount.err = ""
        THEN IF ~ghUser.err
             THEN MeOut(StatusOK,
                        ("github" :> (("access_token" :> linkedAccount.AccessToken)
                                        @@ LiveGithubMap(ghUser.user))) @@ response,
                        <<linkedAccount.AccessToken>>, FALSE, "", accounts)
             ELSE MeOut(StatusOK, CachedResponse(response, cache),
                        <<linkedAccount.AccessToken>>, TRUE, "", accounts)
        ELSE MeOut(StatusOK, CachedResponse(response, cache), <<>>, TRUE,
                   linkedAccount.err, accounts)


\* the user id is read from the role local and the role from the user id local
MeHandlerSwapsLocals(dbv, locals, accounts, key, linkFault, answer, scanOK) ==
    LET userID == uuidParse(locals.role)
        response == ("id" :> locals.role) @@ ("role" :> locals.userID)
        linkedAccount == GetLinkedAccount(accounts, userID.val, key, linkFault)
        ghUser == GetUser(linkedAccount.AccessToken, answer)
        cache == CacheQuery(accounts, userID.val, scanOK)
    IN  IF dbv = "nil"
        THEN MeOut(StatusServiceUnavailable, "error" :> "db_not_configured", <<>>, FALSE,
                   "", accounts)
        ELSE IF ~userID.ok
        THEN MeOut(StatusUnauthorized, "error" :> "invalid_user", <<>>, FALSE, "", accounts)
        ELSE IF linkedAccount.err = ""
        THEN IF ~ghUser.err
             THEN MeOut(StatusOK, ("github" :> LiveGithubMap(ghUser.user)) @@ response,
                        <<linkedAccount.AccessToken>>, FALSE, "", accounts)
             ELSE MeOut(StatusOK, CachedResponse(response, cache),
                        <<linkedAccount.AccessToken>>, TRUE, "", accounts)
        ELSE MeOut(StatusOK, CachedResponse(response, cache), <<>>, TRUE,
                   linkedAccount.err, accounts)

MeHandler(dbv, locals, accounts, key, linkFault, answer, scanOK) ==
    LET userID == uuidParse(locals.userID)
        response == ("id" :> locals.userID) @@ ("role" :> locals.role)
        linkedAccount == GetLinkedAccount(accounts, userID.val, key, linkFault)
        ghUser == GetUser(linkedAccount.AccessToken, answer)
        cache == CacheQuery(accounts, userID.val, scanOK)
    IN  IF dbv = "nil"
        THEN MeOut(StatusServiceUnavailable, "error" :> "db_not_configured", <<>>, FALSE,
                   "", accounts)
        ELSE IF ~userID.ok
        THEN MeOut(StatusUnauthorized, "error" :> "invalid_user", <<>>, FALSE, "", accounts)
        ELSE IF linkedAccount.err = ""
        THEN IF ~ghUser.err
             THEN MeOut(StatusOK, ("github" :> LiveGithubMap(ghUser.user)) @@ response,
                        <<linkedAccount.AccessToken>>, FALSE, "", accounts)
             ELSE MeOut(StatusOK, CachedResponse(response, cache),
                        <<linkedAccount.AccessToken>>, TRUE, "", accounts)
        ELSE MeOut(StatusOK, CachedResponse(response, cache), <<>>, TRUE,
                   linkedAccount.err, accounts)

\* what the collaborators gave one Me request: whether GetLinkedAccount and
\* GetUser returned without error, the profile of the provider, the cached fields
NoSeen ==
    [linked |-> FALSE, fetched |-> FALSE, ghUser |-> NoProfile,
     cache |-> [githubLogin |-> <<>>, avatarURL |-> <<>>]]

Seen(dbv, locals, accounts, key, linkFault, answer, scanOK) ==
    LET userID == uuidParse(locals.userID)
        linkedAccount == GetLinkedAccount(accounts, userID.val, key, linkFault)
        ghUser == GetUser(linkedAccount.AccessToken, answer)
    IN  IF dbv = "nil" \/ ~userID.ok THEN NoSeen
        ELSE IF linkedAccount.err = "" /\ ~ghUser.err
        THEN [NoSeen EXCEPT !.linked = TRUE, !.fetched = TRUE, !.ghUser = ghUser.user]
        ELSE [NoSeen EXCEPT !.linked = (linkedAccount.err = ""),
                            !.cache = CacheQuery(accounts, userID.val, scanOK)]

NoMe ==
    [locals |-> NoLocals, status |-> 0, body |-> EmptyMap, providerToken |-> <<>>,
     cacheRead |-> FALSE, linkErr |-> "", logs |-> <<>>, seen |-> NoSeen]

\* one request: me.status = 0 until it is answered
Me ==
    /\ me.status = 0
    /\ \E linkFault \in BOOLEAN, answer \in GetUserResults, scanOK \in BOOLEAN :
        LET out == MeHandler(db, me.locals, github_accounts, TokenEncKeyB64, linkFault,
                             answer, scanOK)
        IN  /\ me' = [me EXCEPT !.status = out.status, !.body = out.body,
                                !.providerToken = out.providerToken,
                                !.cacheRead = out.cacheRead, !.linkErr = out.linkErr,
                                !.logs = out.logs,
                                !.seen = Seen(db, me.locals, github_accounts,
                                              TokenEncKeyB64, linkFault, answer, scanOK)]
            /\ github_accounts' = out.accounts
    /\ UNCHANGED <<db, JWTSecret, now, nonces, users, links, pc, vreq, resp, nonceResp, probe,
                   TokenEncKeyB64, asked, uiVars>>

\* the bearer-token middleware in front of Me: the claims of the token Verify
\* request r was given become the locals of the next Me request
Authenticate(r) ==
    /\ resp[r].status = StatusOK
    /\ LET parsed == ParseJWT(JWTSecret, resp[r].token, now)
       IN  /\ parsed.ok
           /\ me' = [NoMe EXCEPT !.locals = [userID |-> UserIDString(parsed.claims.userID),
                                             role |-> parsed.claims.role]]
    /\ UNCHANGED <<db, JWTSecret, now, nonces, users, links, pc, vreq, resp, nonceResp, probe,
                   TokenEncKeyB64, github_accounts, asked, uiVars>>

\* ------------------------------------- shared/utils/errorHandler.ts
\* A text is a sequence of fragments, cut so that every occurrence of a searched
\* string is a run of whole fragments: "5001" is <<"500", "1">>.
includes(s, sub) ==
    \E i \in 0..(Len(s) - Len(sub)) : SubSeq(s, i + 1, i + Len(sub)) = sub

\* the strings the function returns
TryAgain == <<"Something went wrong. Please try again.">>
ConnectionMessage ==
    <<"Unable", " ", "to", " ", "connect",
      " to the server. Please check your internet connection and try again.">>
SessionMessage == <<"Your session has expired. Please sign in again.">>
ServerMessage ==
    <<"Our servers are experiencing issues. Please try again in a few moments.">>
NotFoundMessage == <<"The requested resource could not be found.">>
TimeoutMessage == <<"The request took too long. Please try again.">>
ResponseMessage ==
    <<"We received an unexpected response from the server. Please try again.">>
RequestMessage == <<"Unable to complete your request. Please try again.">>
TryAgainLater == <<"Something went wrong. Please try again later.">>

\* a JavaScript value: its type and, for an Error, its message, for a primitive,
\* its rendering as a string
Value(type, value) == [type |-> type, value |-> value]

\* !error
Falsy(e) ==
    \/ e.type \in {"null", "undefined"}
    \/ e.type = "string" /\ e.value = <<>>
    \/ e.type = "number" /\ e.value \in {<<"0">>, <<"NaN">>}
    \/ e.type = "boolean" /\ e.value = <<"false">>

\* String(error)
String(e) ==
    CASE e.type = "object" -> <<"[object Object]">>
      [] e.type = "null" -> <<"null">>
      [] e.type = "undefined" -> <<"undefined">>
      [] OTHER -> e.value

\* error instanceof Error ? error.message : String(error)
errorMessage(e) == IF e.type = "Error" THEN e.value ELSE String(e)

\* the fallback returns the message it was given
getUserFriendlyErrorPassesThrough(e) ==
    LET m == errorMessage(e)
    IN  IF Falsy(e) THEN TryAgain
        ELSE IF \/ includes(m, <<"Network", " ", "error">>)
                \/ includes(m, <<"fetch">>)
                \/ includes(m, <<"Failed", " ", "to", " ", "fetch">>)
                \/ includes(m, <<"Unable", " ", "to", " ", "connect">>)
        THEN ConnectionMessage
        ELSE IF \/ includes(m, <<"Authentication", " ", "failed">>)
                \/ includes(m, <<"Unauthorized">>)
                \/ includes(m, <<"401">>)
        THEN SessionMessage
        ELSE IF \/ includes(m, <<"500">>)
                \/ includes(m, <<"Internal", " ", "Server", " ", "Error">>)
                \/ includes(m, <<"server", " ", "error">>)
        THEN ServerMessage
        ELSE IF \/ includes(m, <<"404">>)
                \/ includes(m, <<"Not", " ", "Found">>)
                \/ includes(m, <<"not", " ", "found">>)
        THEN NotFoundMessage
        ELSE IF \/ includes(m, <<"timeout">>)
                \/ includes(m, <<"Timeout">>)
                \/ includes(m, <<"timed", " ", "out">>)
        THEN TimeoutMessage
        ELSE IF \/ includes(m, <<"Invalid", " ", "response">>)
                \/ includes(m, <<"Invalid", " ", "response", " ", "format">>)
        THEN ResponseMessage
        ELSE IF \/ includes(m, <<"API", " ", "request", " ", "failed">>)
                \/ includes(m, <<"request", " ", "failed">>)
        THEN RequestMessage
        ELSE m

\* timeouts are looked for before server errors
getUserFriendlyErrorTimeoutFirst(e) ==
    LET m == errorMessage(e)
    IN  IF Falsy(e) THEN TryAgain
        ELSE IF \/ includes(m, <<"Network", " ", "error">>)
                \/ includes(m, <<"fetch">>)
                \/ includes(m, <<"Failed", " ", "to", " ", "fetch">>)
                \/ includes(m, <<"Unable", " ", "to", " ", "connect">>)
        THEN ConnectionMessage
        ELSE IF \/ includes(m, <<"Authentication", " ", "failed">>)
                \/ includes(m, <<"Unauthorized">>)
                \/ includes(m, <<"401">>)
        THEN SessionMessage
        ELSE IF \/ includes(m, <<"timeout">>)
                \/ includes(m, <<"Timeout">>)
                \/ includes(m, <<"timed", " ", "out">>)
        THEN TimeoutMessage
        ELSE IF \/ includes(m, <<"500">>)
                \/ includes(m, <<"Internal", " ", "Server", " ", "Error">>)
                \/ includes(m, <<"server", " ", "error">>)
        THEN ServerMessage
        ELSE IF \/ includes(m, <<"404">>)
                \/ includes(m, <<"Not", " ", "Found">>)
                \/ includes(m, <<"not", " ", "found">>)
        THEN NotFoundMessage
        ELSE IF \/ includes(m, <<"Invalid", " ", "response">>)
                \/ includes(m, <<"Invalid", " ", "response", " ", "format">>)
        THEN ResponseMessage
        ELSE IF \/ includes(m, <<"API", " ", "request", " ", "failed">>)
                \/ includes(m, <<"request", " ", "failed">>)
        THEN RequestMessage
        ELSE TryAgainLater

getUserFriendlyError(e) ==
    LET m == errorMessage(e)
    IN  IF Falsy(e) THEN TryAgain
        ELSE IF \/ includes(m, <<"Network", " ", "error">>)
                \/ includes(m, <<"fetch">>)
                \/ includes(m, <<"Failed", " ", "to", " ", "fetch">>)
                \/ includes(m, <<"Unable", " ", "to", " ", "connect">>)
        THEN ConnectionMessage
        ELSE IF \/ includes(m, <<"Authentication", " ", "failed">>)
                \/ includes(m, <<"Unauthorized">>)
                \/ includes(m, <<"401">>)
        THEN SessionMessage
        ELSE IF \/ includes(m, <<"500">>)
                \/ includes(m, <<"Internal", " ", "Server", " ", "Error">>)
                \/ includes(m, <<"server", " ", "error">>)
        THEN ServerMessage
        ELSE IF \/ includes(m, <<"404">>)
                \/ includes(m, <<"Not", " ", "Found">>)
                \/ includes(m, <<"not", " ", "found">>)
        THEN NotFoundMessage
        ELSE IF \/ includes(m, <<"timeout">>)
                \/ includes(m, <<"Timeout">>)
                \/ includes(m, <<"timed", " ", "out">>)
        THEN TimeoutMessage
        ELSE IF \/ includes(m, <<"Invalid", " ", "response">>)
                \/ includes(m, <<"Invalid", " ", "response", " ", "format">>)
        THEN ResponseMessage
        ELSE IF \/ includes(m, <<"API", " ", "request", " ", "failed">>)
                \/ includes(m, <<"request", " ", "failed">>)
        THEN RequestMessage
        ELSE TryAgainLater

\* before a call: no argument yet, nothing returned
NoError == Value("undefined", <<>>)
NoReturn == [done |-> FALSE, value |-> <<>>]

\* one call of the function on the argument in error
CallGetUserFriendlyError ==
    /\ ~returned.done
    /\ returned' = [done |-> TRUE, value |-> getUserFriendlyError(error)]
    /\ UNCHANGED <<db, JWTSecret, now, nonces, users, links, pc, vreq, resp, nonceResp, probe,
                   meVars, asked, error, tab>>

\* ------------------------- features/settings/components/profile/ProfileTab.tsx
\* A form text is a sequence of words, <<>> the empty string. A github name is its
\* words, separated by single spaces.
NoText == <<>>

\* useState(null), useState(true), useState('') five times; phase is where the
\* effect stands: "rendered" before it ran, "awaiting" at await getCurrentUser(),
\* "settled" after; outcome and logged are history (how the promise settled, and
\* whether console.error was called)
InitialTab ==
    [phase |-> "rendered", isLoading |-> TRUE, currentUser |-> <<>>,
     firstName |-> NoText, lastName |-> NoText, location |-> NoText, website |-> NoText,
     bio |-> NoText, outcome |-> "", logged |-> FALSE]

FormFields == {"firstName", "lastName", "location", "website", "bio"}

\* what the user may type into a field
Typed == {NoText, <<"typed">>}

\* the github objects and users getCurrentUser may resolve with; <<>> is no value
GithubObjects ==
    [login : {"octocat"}, avatar_url : {"live.png"}, email : {"", "octo@cat"},
     name : {NoText, <<"Octo">>, <<"Octo", "van", "Cat">>},
     location : {NoText, <<"Sea">>}, website : {NoText, <<"blog.cat">>},
     bio : {NoText, <<"bio">>}]

CurrentUsers ==
    {[id |-> "uuid-1", role |-> "contributor", github |-> g] :
        g \in {<<>>} \cup {<<o>> : o \in GithubObjects}}

Resolutions == {<<>>} \cup {<<u>> : u \in CurrentUsers}

\* if (value) setField(value)
Prefill(old, value) == IF value # NoText THEN value ELSE old

\* lines 37-59: setCurrentUser(user) and the prefill of the form
Prefilled(t, user) ==
    LET g == user.github[1]
    IN  [t EXCEPT !.currentUser = <<user>>,
                  !.firstName = IF g.name # NoText THEN <<g.name[1]>> ELSE @,
                  !.lastName = IF Len(g.name) > 1 THEN Tail(g.name) ELSE @,
                  !.location = Prefill(@, g.location),
                  !.website = Prefill(@, g.website),
                  !.bio = Prefill(@, g.bio)]

\* the try block after the promise resolved with res, then catch and finally;
\* reading user.github of no value throws into the catch block
fetchUserResolved(t, res) ==
    IF res = <<>>
    THEN [t EXCEPT !.phase = "settled", !.currentUser = <<>>, !.logged = TRUE,
                   !.isLoading = FALSE, !.outcome = "resolved"]
    ELSE IF res[1].github = <<>>
    THEN [t EXCEPT !.phase = "settled", !.currentUser = res, !.isLoading = FALSE,
                   !.outcome = "resolved"]
    ELSE [Prefilled(t, res[1]) EXCEPT !.phase = "settled", !.isLoading = FALSE,
                                      !.outcome = "resolved"]

\* setIsLoading(false) stands at the end of the try block
fetchUserRejectedNoFinally(t) ==
    [t EXCEPT !.phase = "settled", !.logged = TRUE, !.outcome = "rejected"]

\* catch and finally after the promise rejected
fetchUserRejected(t) ==
    [t EXCEPT !.phase = "settled", !.logged = TRUE, !.isLoading = FALSE,
              !.outcome = "rejected"]

\* what the GitHub account line shows (lines 109-115)
View(t) ==
    IF t.isLoading THEN "skeleton"
    ELSE IF t.currentUser # <<>> /\ t.currentUser[1].github # <<>> THEN "connected"
    ELSE "Not connected / Not connected"

\* useEffect(..., []): fetchUser up to its await
FetchUser ==
    /\ tab.phase = "rendered"
    /\ tab' = [tab EXCEPT !.phase = "awaiting", !.isLoading = TRUE]
    /\ UNCHANGED <<db, JWTSecret, now, nonces, users, links, pc, vreq, resp, nonceResp, probe,
                   meVars, asked, error, returned>>

PromiseResolved ==
    /\ tab.phase = "awaiting"
    /\ \E res \in Resolutions : tab' = fetchUserResolved(tab, res)
    /\ UNCHANGED <<db, JWTSecret, now, nonces, users, links, pc, vreq, resp, nonceResp, probe,
                   meVars, asked, error, returned>>

PromiseRejected ==
    /\ tab.phase = "awaiting"
    /\ tab' = fetchUserRejected(tab)
    /\ UNCHANGED <<db, JWTSecret, now, nonces, users, links, pc, vreq, resp, nonceResp, probe,
                   meVars, asked, error, returned>>

\* onChange of an input of the form
Edit ==
    /\ \E f \in FormFields, v \in Typed : tab' = [tab EXCEPT ![f] = v]
    /\ UNCHANGED <<db, JWTSecret, now, nonces, users, links, pc, vreq, resp, nonceResp, probe,
                   meVars, asked, error, returned>>

\* no call of getUserFriendlyError, no ProfileTab mounted
FrontendIdle ==
    /\ error = NoError
    /\ returned = NoReturn
    /\ tab = InitialTab

\* ----------------------------------------------------------- the clock
\* time passes in steps just over half a nonce lifetime
ClockStep == NonceTTL \div 2 + 1

Tick ==
    /\ now + ClockStep <= MaxClock
    /\ now' = now + ClockStep
    /\ UNCHANGED <<db, JWTSecret, nonces, users, links, pc, vreq, resp, nonceResp, probe,
                   meVars, asked, uiVars>>

\* ------------------------------------------------------ specification
\* no request was sent yet
NoSpelling == <<"", <<>>>>
NoAsked == [nonce |-> <<>>, verify |-> [r \in Reqs |-> NoSpelling]]

NoProbe == [bodyOK |-> TRUE, req |-> VerifyRequest("", <<>>, <<>>, <<>>, <<>>),
            done |-> FALSE, out |-> Rejected(0, "")]

Init ==
    /\ db \in {"nil", "pool"}
    /\ JWTSecret \in {<<>>, <<"secret">>}
    /\ now = 0
    /\ nonces = <<>>
    /\ users = <<>>
    /\ links = {}
    /\ pc = [r \in Reqs |-> "idle"]
    /\ vreq = [r \in Reqs |-> NoReq]
    /\ resp = [r \in Reqs |-> NoResp]
    /\ nonceResp = NoNonceResp
    /\ probe = NoProbe
    /\ TokenEncKeyB64 = "key-1"
    /\ github_accounts = {}
    /\ me = NoMe
    /\ asked = NoAsked
    /\ FrontendIdle

Next ==
    \/ Nonce
    \/ \E r \in Reqs : VerifyBegin(r)
    \/ \E r \in Reqs : VerifyConsume(r)
    \/ Tick

Spec == Init /\ [][Next]_vars

\* ------------------------------- Verify's checks as a function of the request
InitChecks ==
    /\ db \in {"nil", "pool"}
    /\ JWTSecret \in {<<>>, <<"secret">>}
    /\ now = 0
    /\ nonces = <<>>
    /\ users = <<>>
    /\ links = {}
    /\ pc = [r \in Reqs |-> "idle"]
    /\ vreq = [r \in Reqs |-> NoReq]
    /\ resp = [r \in Reqs |-> NoResp]
    /\ nonceResp = NoNonceResp
    /\ probe \in {[NoProbe EXCEPT !.bodyOK = b, !.req = q] :
                    b \in BOOLEAN, q \in VerifyRequests}
    /\ TokenEncKeyB64 = "key-1"
    /\ github_accounts = {}
    /\ me = NoMe
    /\ asked = NoAsked
    /\ FrontendIdle

ProbeVerify ==
    /\ ~probe.done
    /\ probe' = [probe EXCEPT !.done = TRUE,
                               !.out = VerifyChecks(db, JWTSecret, probe.bodyOK, probe.req)]
    /\ UNCHANGED <<db, JWTSecret, now, nonces, users, links, pc, vreq, resp, nonceResp,
                   meVars, asked, uiVars>>

NextChecks == ProbeVerify

SpecChecks == InitChecks /\ [][NextChecks]_vars

\* --------------------------------------- Me over every identity and account
MeLocals ==
    {NoLocals,
     [userID |-> "not-a-uuid", role |-> DefaultRole],
     [userID |-> UserIDString(1), role |-> DefaultRole],
     [userID |-> UserIDString(1), role |-> "admin"]}

InitMe ==
    /\ db \in {"nil", "pool"}
    /\ JWTSecret = <<"secret">>
    /\ now = 0
    /\ nonces = <<>>
    /\ users = <<>>
    /\ links = {}
    /\ pc = [r \in Reqs |-> "idle"]
    /\ vreq = [r \in Reqs |-> NoReq]
    /\ resp = [r \in Reqs |-> NoResp]
    /\ nonceResp = NoNonceResp
    /\ probe = NoProbe
    /\ TokenEncKeyB64 \in EncKeys
    /\ github_accounts \in AccountTables
    /\ me \in {[NoMe EXCEPT !.locals = l] : l \in MeLocals}
    /\ asked = NoAsked
    /\ FrontendIdle

NextMe == Me

SpecMe == InitMe /\ [][NextMe]_vars

\* ------------------------------------------- one login, then Me with its token
\* the first user's account: linked, with a token that opens or a tampered one
LoginAccountTables ==
    {T \in AccountTables :
        \A a \in T : /\ a.user_id = 1
                     /\ a.login # <<>>
                     /\ a.avatar_url = <<"cached.png">>
                     /\ a.access_token # <<>>
                     /\ a.access_token[1].key = "key-1"}

InitLogin ==
    /\ db \in {"nil", "pool"}
    /\ JWTSecret \in {<<>>, <<"secret">>}
    /\ now = 0
    /\ nonces = <<>>
    /\ users = <<>>
    /\ links = {}
    /\ pc = [r \in Reqs |-> "idle"]
    /\ vreq = [r \in Reqs |-> NoReq]
    /\ resp = [r \in Reqs |-> NoResp]
    /\ nonceResp = NoNonceResp
    /\ probe = NoProbe
    /\ TokenEncKeyB64 = "key-1"
    /\ github_accounts \in LoginAccountTables
    /\ me = NoMe
    /\ asked = NoAsked
    /\ FrontendIdle

NextLogin ==
    \/ Nonce
    \/ VerifyBegin(1)
    \/ VerifyConsume(1)
    \/ Tick
    \/ Authenticate(1)
    \/ Me

SpecLogin == InitLogin /\ [][NextLogin]_vars

\* ------------------------- one wallet under every spelling of its type and address
\* (no time passes: every nonce issued is unexpired)
TheWallet == Identity("evm", <<"a", "0">>)

\* the spellings the handlers normalize to TheWallet
RawSpellings ==
    {wa \in RawWalletTypes \X RawAddresses :
        /\ NormalizeWalletType(wa[1]).ok
        /\ NormalizeAddress(NormalizeWalletType(wa[1]).val, wa[2]).ok
        /\ Identity(NormalizeWalletType(wa[1]).val,
                    NormalizeAddress(NormalizeWalletType(wa[1]).val, wa[2]).val) = TheWallet}

\* Verify requests of TheWallet under each spelling, signed by its key over the
\* canonical message of the nonce they carry
SpeltRequests ==
    {VerifyRequest(wa[1], wa[2], n, Sign(TheWallet, LoginMessage(n)), <<>>) :
        wa \in RawSpellings, n \in NonceTokens \ {<<>>}}

\* asked.nonce[k] is the spelling row k was asked for
NonceSpelt ==
    /\ \E wa \in RawSpellings, createOK \in BOOLEAN :
        /\ NonceOn(NonceChecks(db, TRUE, wa[1], wa[2]), createOK)
        /\ asked' = [asked EXCEPT !.nonce = IF Len(nonces') > Len(nonces)
                                             THEN Append(@, wa) ELSE @]
    /\ UNCHANGED uiVars

\* the outcomes of VerifyEntry over SpeltRequests, each with its spelling
SpeltEntries ==
    [dbv \in {"nil", "pool"}, secret \in {<<>>, <<"secret">>} |->
        {[entry |-> VerifyEntry(dbv, secret, TRUE, req),
          spelling |-> <<req.WalletType, req.Address>>] : req \in SpeltRequests}]

VerifyBeginSpelt(r) ==
    /\ \E x \in SpeltEntries[db, JWTSecret] :
        /\ VerifyBeginOn(r, x.entry)
        /\ asked' = [asked EXCEPT !.verify[r] = x.spelling]
    /\ UNCHANGED uiVars

InitSpelling ==
    /\ db \in {"nil", "pool"}
    /\ JWTSecret \in {<<>>, <<"secret">>}
    /\ now = 0
    /\ nonces = <<>>
    /\ users = <<>>
    /\ links = {}
    /\ pc = [r \in Reqs |-> "idle"]
    /\ vreq = [r \in Reqs |-> NoReq]
    /\ resp = [r \in Reqs |-> NoResp]
    /\ nonceResp = NoNonceResp
    /\ probe = NoProbe
    /\ TokenEncKeyB64 = "key-1"
    /\ github_accounts = {}
    /\ me = NoMe
    /\ asked = NoAsked
    /\ FrontendIdle

NextSpelling ==
    \/ NonceSpelt
    \/ \E r \in Reqs : VerifyBeginSpelt(r)
    \/ \E r \in Reqs : VerifyConsume(r)

SpecSpelling == InitSpelling /\ [][NextSpelling]_vars

\* ----------------------- one Verify request, known in full, against a given store
\* the store after TheWallet was issued its first nonce, and after it logged in
\* with it
StoreIssued ==
    [nonces |-> CreateNonce(<<>>, TheWallet.walletType, TheWallet.address, NonceTTL, 0),
     users |-> <<>>, links |-> {}]

StoreLoggedIn ==
    LET res == ConsumeNonceAndUpsertUser(StoreIssued.nonces, StoreIssued.users,
                    StoreIssued.links, TheWallet.walletType, TheWallet.address,
                    StoreIssued.nonces[1].nonce, <<>>, 0, "none")
    IN  [nonces |-> res.nonces, users |-> res.users, links |-> res.links]

InitOrder ==
    /\ db \in {"nil", "pool"}
    /\ JWTSecret \in {<<>>, <<"secret">>}
    /\ now = 0
    /\ \E s \in {StoreIssued, StoreLoggedIn} :
        /\ nonces = s.nonces
        /\ users = s.users
        /\ links = s.links
    /\ pc = [r \in Reqs |-> "idle"]
    /\ vreq = [r \in Reqs |-> NoReq]
    /\ resp = [r \in Reqs |-> NoResp]
    /\ nonceResp = NoNonceResp
    /\ probe \in {[NoProbe EXCEPT !.bodyOK = b, !.req = q] :
                    b \in BOOLEAN, q \in VerifyRequests}
    /\ TokenEncKeyB64 = "key-1"
    /\ github_accounts = {}
    /\ me = NoMe
    /\ asked = NoAsked
    /\ FrontendIdle

\* request 1 is the probed request, up to its signature check
VerifyProbed ==
    /\ ~probe.done
    /\ pc[1] = "idle"
    /\ LET e == VerifyEntry(db, JWTSecret, probe.bodyOK, probe.req)
       IN  /\ pc' = [pc EXCEPT ![1] = IF e.resp = NoResp THEN "consume" ELSE "done"]
           /\ resp' = [resp EXCEPT ![1] = e.resp]
           /\ vreq' = [vreq EXCEPT ![1] = e.vreq]
    /\ probe' = [probe EXCEPT !.done = TRUE,
                               !.out = VerifyChecks(db, JWTSecret, probe.bodyOK, probe.req)]
    /\ UNCHANGED <<db, JWTSecret, now, nonces, users, links, nonceResp, meVars, asked, uiVars>>

NextOrder ==
    \/ VerifyProbed
    \/ VerifyConsume(1)

SpecOrder == InitOrder /\ [][NextOrder]_vars

\* ---------------------------------------------------- the frontend alone
\* a configured backend that serves no request
BackendIdle ==
    /\ db = "pool"
    /\ JWTSecret = <<"secret">>
    /\ now = 0
    /\ nonces = <<>>
    /\ users = <<>>
    /\ links = {}
    /\ pc = [r \in Reqs |-> "idle"]
    /\ vreq = [r \in Reqs |-> NoReq]
    /\ resp = [r \in Reqs |-> NoResp]
    /\ nonceResp = NoNonceResp
    /\ probe = NoProbe
    /\ TokenEncKeyB64 = "key-1"
    /\ github_accounts = {}
    /\ me = NoMe
    /\ asked = NoAsked

\* the strings getUserFriendlyError looks for
SearchStrings ==
    {<<"Network", " ", "error">>, <<"fetch">>, <<"Failed", " ", "to", " ", "fetch">>,
     <<"Unable", " ", "to", " ", "connect">>, <<"Authentication", " ", "failed">>,
     <<"Unauthorized">>, <<"401">>, <<"500">>,
     <<"Internal", " ", "Server", " ", "Error">>, <<"server", " ", "error">>, <<"404">>,
     <<"Not", " ", "Found">>, <<"not", " ", "found">>, <<"timeout">>, <<"Timeout">>,
     <<"timed", " ", "out">>, <<"Invalid", " ", "response">>,
     <<"Invalid", " ", "response", " ", "format">>,
     <<"API", " ", "request", " ", "failed">>, <<"request", " ", "failed">>}

FixedMessages ==
    {TryAgain, ConnectionMessage, SessionMessage, ServerMessage, NotFoundMessage,
     TimeoutMessage, ResponseMessage, RequestMessage, TryAgainLater}

\* texts that hold none of the searched strings, or one inside a longer word
OtherTexts ==
    {<<"boom">>, <<"Fetch">>, <<"Server", " ", "Error">>, <<"pre", "fetch", "ed">>,
     <<"500", "1">>, <<"TypeError: x is undefined">>}

Phrases == SearchStrings \cup FixedMessages \cup OtherTexts

\* the empty text, one phrase, or two phrases joined by ": "
Texts == {<<>>} \cup Phrases \cup {p \o <<": ">> \o q : p \in Phrases, q \in Phrases}

\* what may be thrown, and so be passed to the function
Errors ==
    {Value("null", <<>>), Value("undefined", <<>>), Value("boolean", <<"false">>),
     Value("boolean", <<"true">>), Value("number", <<"0">>), Value("number", <<"NaN">>),
     Value("number", <<"404">>), Value("number", <<"500">>), Value("number", <<"7">>),
     Value("object", <<>>)}
        \cup {Value(t, x) : t \in {"Error", "string"}, x \in Texts}

InitFriendly ==
    /\ BackendIdle
    /\ error \in Errors
    /\ returned = NoReturn
    /\ tab = InitialTab

NextFriendly == CallGetUserFriendlyError

SpecFriendly == InitFriendly /\ [][NextFriendly]_vars

InitProfileTab ==
    /\ BackendIdle
    /\ error = NoError
    /\ returned = NoReturn
    /\ tab = InitialTab

NextProfileTab ==
    \/ FetchUser
    \/ PromiseResolved
    \/ PromiseRejected
    \/ Edit

SpecProfileTab == InitProfileTab /\ [][NextProfileTab]_vars

\* =============================================================== claims
Done(r) == pc[r] = "done"

\* request r is answered by its storage transaction in this step
Consumes(r) == pc[r] = "consume" /\ pc'[r] = "done"

\* the rows holding request r's nonce token
RowsOf(r) == {k \in 1..Len(nonces) : nonces[k].nonce = vreq[r].nonce}

OwnedBy(k, r) ==
    /\ nonces[k].walletType = vreq[r].walletType
    /\ nonces[k].address = vreq[r].address

\* request r passed its signature check while another request carrying the same
\* nonce token stood between signature check and transaction
Raced(r) == \E q \in vreq[r].overlapped : vreq[q].nonce = vreq[r].nonce

SameWallet(r, q) ==
    /\ vreq[r].walletType = vreq[q].walletType
    /\ vreq[r].address = vreq[q].address

\* C1: Verify answers 200 with a token only when the request's signature is the
\* named wallet's over the canonical or legacy rendering of the submitted nonce and
\* this request's own transaction consumed that nonce for that wallet; every other
\* finished request carries an error code and no token.
C1_TokenOnlyAfterSignatureAndConsume ==
    \A r \in Reqs :
        /\ (resp[r].status = StatusOK \/ resp[r].token # NoToken) =>
            /\ resp[r].status = StatusOK
            /\ resp[r].token # NoToken
            /\ resp[r].error = ""
            /\ vreq[r].genuine
            /\ resp[r].committed
            /\ \E k \in RowsOf(r) : nonces[k].used /\ OwnedBy(k, r)
            /\ \A q \in Reqs \ {r} : resp[q].committed => vreq[q].nonce # vreq[r].nonce
            /\ resp[r].wallet = Identity(vreq[r].walletType, vreq[r].address)
        /\ (Done(r) /\ resp[r].status # StatusOK) =>
            /\ resp[r].error # ""
            /\ resp[r].token = NoToken
            /\ resp[r].status \in {StatusBadRequest, StatusUnauthorized,
                                   StatusInternalServerError, StatusServiceUnavailable}

C1_Witness ==
    \E r \in Reqs : resp[r].status = StatusOK /\ vreq[r].genuine /\ resp[r].token # NoToken

\* C2: a Verify whose transaction runs on an already consumed nonce does not log
\* in; it is answered 401 invalid_or_expired_nonce (500 auth_failed only when its
\* own transaction meets a storage fault), valid signature or not; and no nonce
\* token ever has two 200 responses.
C2_ReplayRejected ==
    [][/\ \A r \in Reqs :
            (Consumes(r) /\ \E k \in RowsOf(r) : nonces[k].used) =>
                /\ resp'[r].status # StatusOK
                /\ resp'[r].token = NoToken
                /\ resp'[r].fault = "none" =>
                    /\ resp'[r].status = StatusUnauthorized
                    /\ resp'[r].error = "invalid_or_expired_nonce"
       /\ \A n \in NonceTokens :
            Cardinality({r \in Reqs : resp'[r].status = StatusOK /\ vreq'[r].nonce = n}) <= 1
      ]_vars

\* request 2 began after request 1 had logged in with the same nonce and wallet
C2_Witness ==
    /\ resp[1].status = StatusOK
    /\ resp[2].error = "invalid_or_expired_nonce"
    /\ vreq[2].nonce = vreq[1].nonce
    /\ SameWallet(1, 2)
    /\ vreq[2].genuine
    /\ vreq[2].overlapped = {}

\* the finished requests that carried row k's token for the wallet it was issued to
Contenders(k) ==
    {r \in Reqs : Done(r) /\ resp[r].dbAccess /\ k \in RowsOf(r) /\ OwnedBy(k, r)}

Faultless(r) == resp[r].fault = "none" /\ resp[r].error # "token_issue_failed"

C4_ExpiredNonceRejected ==
    [][/\ \A r \in Reqs :
            (Consumes(r) /\ \E k \in RowsOf(r) : now > nonces[k].expiresAt) =>
                /\ resp'[r].status # StatusOK
                /\ nonces' = nonces
                /\ resp'[r].fault = "none" =>
                    /\ resp'[r].status = StatusUnauthorized
                    /\ resp'[r].error = "invalid_or_expired_nonce"
       /\ Len(nonces') > Len(nonces) =>
            /\ nonces'[Len(nonces')].expiresAt = now + NonceTTL
            /\ nonceResp'.expires_at = now + NonceTTL
      ]_vars

C4_Witness ==
    \E r \in Reqs : \E k \in RowsOf(r) :
        /\ resp[r].error = "invalid_or_expired_nonce"
        /\ vreq[r].genuine
        /\ OwnedBy(k, r)
        /\ ~nonces[k].used
        /\ now > nonces[k].expiresAt

\* C5: a Verify for a wallet other than the one its nonce was issued to is answered
\* 401 invalid_or_expired_nonce (500 auth_failed only on a storage fault), never
\* 200, and leaves the nonce table as it was.
C5_NonceBoundToWallet ==
    [][\A r \in Reqs :
        (Consumes(r) /\ \E k \in RowsOf(r) : ~OwnedBy(k, r)) =>
            /\ resp'[r].status # StatusOK
            /\ nonces' = nonces
            /\ resp'[r].fault = "none" =>
                /\ resp'[r].status = StatusUnauthorized
                /\ resp'[r].error = "invalid_or_expired_nonce"
      ]_vars

\* a live nonce of another wallet, submitted with a valid signature of the
\* requester's own wallet, was refused and is still unconsumed
C5_Witness ==
    \E r \in Reqs : \E k \in RowsOf(r) :
        /\ resp[r].error = "invalid_or_expired_nonce"
        /\ vreq[r].genuine
        /\ ~OwnedBy(k, r)
        /\ ~nonces[k].used
        /\ now < nonces[k].expiresAt

\* the probed request got as far as the signature check
ReachedSignatureCheck ==
    /\ probe.done
    /\ db = "pool"
    /\ JWTSecret # <<>>
    /\ probe.bodyOK
    /\ NormalizeWalletType(probe.req.WalletType).ok
    /\ NormalizeAddress(NormalizeWalletType(probe.req.WalletType).val, probe.req.Address).ok
    /\ probe.req.Nonce # <<>>
    /\ probe.req.Signature # <<>>

\* the probed request's signature is the named wallet's over rendering sep of the
\* nonce it submits
SignedRendering(sep) ==
    LET wt == NormalizeWalletType(probe.req.WalletType).val
        ad == NormalizeAddress(wt, probe.req.Address).val
    IN  probe.req.Signature = Sign(Identity(wt, ad), Message(sep, probe.req.Nonce))

\* C6: a request that reaches the signature check passes it when its signature is
\* the named wallet's over the canonical or the legacy rendering of the submitted
\* nonce, and is answered 401 invalid_signature otherwise, in particular when the
\* signature is over any other rendering.
C6_CanonicalOrLegacyAccepted ==
    ReachedSignatureCheck =>
        IF SignedRendering("newline") \/ SignedRendering("escaped")
        THEN probe.out.error = ""
        ELSE probe.out.error = "invalid_signature" /\ probe.out.status = StatusUnauthorized

\* a signature over the legacy rendering passed
C6_Witness ==
    ReachedSignatureCheck /\ SignedRendering("escaped") /\ probe.out.error = ""

ValidationErrors == {"invalid_wallet_type", "invalid_address", "missing_nonce_or_signature"}

\* C7: a Nonce or Verify request answered with a validation error never reached
\* storage: the step that answers it leaves nonces, users and wallet links as they
\* were.
C7_ValidationBeforeStorage ==
    [][/\ \A r \in Reqs :
            (resp'[r] # resp[r] /\ resp'[r].error \in ValidationErrors) =>
                /\ ~resp'[r].dbAccess
                /\ UNCHANGED <<nonces, users, links>>
       /\ (pc' = pc /\ now' = now /\ nonceResp'.error \in ValidationErrors) =>
                /\ ~nonceResp'.dbAccess
                /\ UNCHANGED <<nonces, users, links>>
      ]_vars

C7_Witness ==
    /\ nonceResp.error = "invalid_address"
    /\ ~nonceResp.dbAccess
    /\ \E r \in Reqs : resp[r].error = "invalid_wallet_type" /\ ~resp[r].dbAccess

C9_OneUserPerWallet ==
    /\ \A l1 \in links, l2 \in links :
        (l1.walletType = l2.walletType /\ l1.address = l2.address) => l1 = l2
    /\ \A u \in 1..Len(users) : Cardinality({l \in links : l.userID = u}) = 1
    /\ \A l \in links : l.userID \in 1..Len(users)
    /\ \A u \in 1..Len(users) : users[u].id = u

\* two first logins of one wallet, each with its own nonce, ran at once
C9_Witness ==
    /\ resp[1].status = StatusOK
    /\ resp[2].status = StatusOK
    /\ SameWallet(1, 2)
    /\ vreq[1].nonce # vreq[2].nonce
    /\ vreq[2].overlapped = {1}
    /\ Len(users) = 1
    /\ Cardinality(links) = 1

\* C10: a login of a wallet that already has a wallet link adds no user and no
\* link, and two logins of the same wallet return the same user (id and role)
\* and the same wallet.
C10_SecondLoginReusesUser ==
    [][/\ \A r \in Reqs :
            ( /\ Consumes(r)
              /\ \E l \in links : l.walletType = vreq[r].walletType
                                   /\ l.address = vreq[r].address ) =>
                /\ users' = users
                /\ links' = links
       /\ \A r \in Reqs, q \in Reqs :
            ( /\ resp'[r].status = StatusOK
              /\ resp'[q].status = StatusOK
              /\ vreq'[r].walletType = vreq'[q].walletType
              /\ vreq'[r].address = vreq'[q].address ) =>
                /\ resp'[r].user = resp'[q].user
                /\ resp'[r].wallet = resp'[q].wallet
                /\ resp'[r].token[1].userID = resp'[q].token[1].userID
      ]_vars

\* request 2 began after request 1 had logged in, with another nonce
C10_Witness ==
    /\ resp[1].status = StatusOK
    /\ resp[2].status = StatusOK
    /\ SameWallet(1, 2)
    /\ vreq[1].nonce # vreq[2].nonce
    /\ resp[1].user = resp[2].user
    /\ Len(users) = 1
    /\ Cardinality(links) = 1
    /\ vreq[2].overlapped = {}

\* request r was refused for its signature
BadSignature(r) == Done(r) /\ resp[r].error = "invalid_signature"

\* C11 as stated: once a Verify was answered invalid_signature for a nonce, no
\* Verify carrying that nonce logs in.
C11_NonceDeadAfterBadSignature ==
    [][\A r \in Reqs :
        (Consumes(r) /\ \E q \in Reqs : BadSignature(q) /\ vreq[q].nonce = vreq[r].nonce) =>
            resp'[r].status # StatusOK
      ]_vars

\* C11 (amended): a signature failure ends the request and nothing else: the
\* request is answered 401 invalid_signature without a token, never reaches the
\* transaction, is not retried, and leaves nonces, users and wallet links as they
\* were, so the nonce it named is neither consumed nor invalidated.
C11_BadSignatureEndsRequestOnly ==
    [][\A r \in Reqs :
        /\ (vreq'[r].nonce # <<>> /\ ~vreq'[r].genuine) =>
            /\ pc'[r] = "done"
            /\ resp'[r].error = "invalid_signature"
            /\ resp'[r].status = StatusUnauthorized
            /\ resp'[r].token = NoToken
            /\ ~resp'[r].dbAccess
        /\ (resp'[r] # resp[r] /\ resp'[r].error = "invalid_signature") =>
            UNCHANGED <<nonces, users, links>>
        /\ BadSignature(r) => (resp'[r] = resp[r] /\ pc'[r] = pc[r])
      ]_vars

\* request 1 was refused for its signature; request 2 began afterwards and logged
\* the same wallet in with the same nonce
C11_Witness ==
    /\ BadSignature(1)
    /\ resp[2].status = StatusOK
    /\ vreq[2].nonce = vreq[1].nonce
    /\ SameWallet(1, 2)
    /\ vreq[2].overlapped = {}

\* the Me request was answered
MeAnswered == me.status # 0

HasGithub == "github" \in DOMAIN me.body

\* the linked-account rows of the authenticated user
MyRows == RowsOfUser(github_accounts, uuidParse(me.locals.userID).val)

\* C12: when storage is configured and the authenticated user id parses, Me answers
\* 200 with that id and role and no error code, whatever GetLinkedAccount, the
\* provider's GetUser and the cached-profile query do; it answers otherwise only
\* 503 (no storage) or 401 (user id).
C12_MeNeverFailsOnLinkedAccount ==
    MeAnswered =>
        IF db = "pool" /\ uuidParse(me.locals.userID).ok
        THEN /\ me.status = StatusOK
             /\ "error" \notin DOMAIN me.body
             /\ me.body["id"] = me.locals.userID
             /\ me.body["role"] = me.locals.role
        ELSE /\ me.status \in {StatusServiceUnavailable, StatusUnauthorized}
             /\ DOMAIN me.body = {"error"}

\* the account opened, GetUser failed, and the cached-profile query failed on a
\* row that holds a login
C12_Witness ==
    /\ me.status = StatusOK
    /\ me.providerToken # <<>>
    /\ me.cacheRead
    /\ ~HasGithub
    /\ \E a \in MyRows : a.login # <<>>

\* the same table with every account unlinked: rows kept, no stored token
Unlinked(accounts) == {[a EXCEPT !.access_token = <<>>] : a \in accounts}

\* C13: when GetLinkedAccount fails to decrypt, Me does not call the provider,
\* reads the cached fields, and answers exactly what it answers for the same
\* account when it is not linked: 200 with id, role and at most a github object of
\* cached login and avatar_url.
C13_DecryptionFailureAsNotLinked ==
    (MeAnswered /\ me.linkErr = "decryption_failed") =>
        /\ me.providerToken = <<>>
        /\ me.cacheRead
        /\ me.status = StatusOK
        /\ DOMAIN me.body \subseteq {"id", "role", "github"}
        /\ HasGithub => DOMAIN me.body["github"] \subseteq {"login", "avatar_url"}
        /\ \E scanOK \in BOOLEAN, answer \in GetUserResults :
            LET out == MeHandler(db, me.locals, Unlinked(github_accounts), TokenEncKeyB64,
                                 FALSE, answer, scanOK)
            IN  /\ out.linkErr = "not_linked"
                /\ out.status = me.status
                /\ out.body = me.body

C13_Witness ==
    /\ me.linkErr = "decryption_failed"
    /\ me.status = StatusOK
    /\ HasGithub
    /\ "avatar_url" \in DOMAIN me.body["github"]

\* every string the response carries
BodyStrings(body) ==
    {body[k] : k \in DOMAIN body \ {"github"}}
        \cup (IF "github" \in DOMAIN body
              THEN {body["github"][k] : k \in DOMAIN body["github"]}
              ELSE {})

\* the plaintexts sealed in the table
SealedTokens(accounts) ==
    {a.access_token[1].plaintext : a \in {x \in accounts : x.access_token # <<>>}}

\* C14: a Me request leaves the linked-account table as it was, with tokens in
\* sealed form only; its response carries no access token; and the only thing
\* handed to GetUser is the token unsealed from the table.
C14_PlaintextTokenStaysInside ==
    [][(me.status = 0 /\ me'.status # 0) =>
        /\ github_accounts' = github_accounts
        /\ \A a \in github_accounts', t \in AccessTokens :
            a.login # <<t>> /\ a.avatar_url # <<t>>
        /\ BodyStrings(me'.body) \cap (AccessTokens \cup SealedTokens(github_accounts)) = {}
        /\ \A i \in 1..Len(me'.providerToken) :
            me'.providerToken[i] \in SealedTokens(github_accounts)
      ]_vars

\* the token was unsealed and sent to the provider, which answered with a profile
C14_Witness ==
    /\ me.status = StatusOK
    /\ me.providerToken # <<>>
    /\ me.providerToken[1] \in AccessTokens
    /\ HasGithub
    /\ ~me.cacheRead

\* the stored token of row a opens under the configured key
Opens(a) ==
    /\ a.access_token # <<>>
    /\ a.access_token[1].key = TokenEncKeyB64
    /\ a.access_token[1].intact

\* C17: when the user's stored token was sealed under another key or is tampered,
\* GetLinkedAccount fails (with a decryption error, unless storage failed first)
\* and no token reaches the caller's provider call; a token that does reach it is
\* the plaintext sealed under the configured key in an intact ciphertext.
C17_DecryptionFailsClosed ==
    (MeAnswered /\ me.status = StatusOK) =>
        /\ (\E a \in MyRows : a.access_token # <<>> /\ ~Opens(a)) =>
            /\ me.linkErr \in {"decryption_failed", "storage_error"}
            /\ me.providerToken = <<>>
        /\ me.providerToken # <<>> =>
            \E a \in MyRows : Opens(a) /\ me.providerToken = <<a.access_token[1].plaintext>>
        /\ me.linkErr = "decryption_failed" =>
            \E a \in MyRows : a.access_token # <<>> /\ ~Opens(a)

\* a ciphertext sealed under the configured key, but tampered
C17_Witness ==
    /\ me.linkErr = "decryption_failed"
    /\ \E a \in MyRows : /\ a.access_token # <<>>
                         /\ a.access_token[1].key = TokenEncKeyB64
                         /\ ~a.access_token[1].intact

\* C15: a Verify that succeeds has committed the wallet's User and WalletLink and
\* carries a token expiring TokenTTL minutes after now; and a Me request
\* authenticated with that token is answered 200 with the id and the role of the
\* user Verify returned.
C15_LoginThenMe ==
    [][/\ (Consumes(1) /\ resp'[1].status = StatusOK) =>
            /\ resp'[1].token[1].exp = now + TokenTTL
            /\ resp'[1].user.id \in 1..Len(users')
            /\ users'[resp'[1].user.id] = resp'[1].user
            /\ [walletType |-> vreq[1].walletType, address |-> vreq[1].address,
                userID |-> resp'[1].user.id] \in links'
       /\ me'.locals # NoLocals =>
            /\ resp'[1].status = StatusOK
            /\ me'.locals.userID = UserIDString(resp'[1].user.id)
            /\ me'.locals.role = resp'[1].user.role
       /\ (me'.locals # NoLocals /\ me'.status # 0) =>
            /\ me'.status = StatusOK
            /\ me'.body["id"] = UserIDString(resp'[1].user.id)
            /\ me'.body["role"] = resp'[1].user.role
      ]_vars

\* a nonce was issued, the first login of the wallet succeeded on a signature over
\* the canonical message, time passed, and Me answered with the token
C15_Witness ==
    /\ nonceResp.status = StatusOK
    /\ nonceResp.message = LoginMessage(nonceResp.nonce)
    /\ resp[1].status = StatusOK
    /\ vreq[1].genuine
    /\ Len(users) = 1
    /\ Cardinality(links) = 1
    /\ now > 0
    /\ me.status = StatusOK
    /\ me.body["id"] = UserIDString(resp[1].user.id)
    /\ me.body["role"] = resp[1].user.role

\* C16: the token of a successful Verify, parsed at once with the server's secret,
\* is valid and yields exactly the user id, role, wallet type and address of the
\* User and WalletLink the transaction returned and committed.
C16_TokenRoundTrip ==
    [][\A r \in Reqs :
        (Consumes(r) /\ resp'[r].status = StatusOK) =>
            LET parsed == ParseJWT(JWTSecret, resp'[r].token, now)
            IN  /\ parsed.ok
                /\ parsed.claims.userID = resp'[r].user.id
                /\ parsed.claims.role = resp'[r].user.role
                /\ parsed.claims.walletType = resp'[r].wallet.walletType
                /\ parsed.claims.address = resp'[r].wallet.address
                /\ users'[parsed.claims.userID].role = parsed.claims.role
                /\ [walletType |-> parsed.claims.walletType,
                    address |-> parsed.claims.address,
                    userID |-> parsed.claims.userID] \in links'
      ]_vars

\* the second user's login: its token parses to user 2 and the wallet it named
C16_Witness ==
    \E r \in Reqs :
        /\ resp[r].status = StatusOK
        /\ resp[r].user.id = 2
        /\ ParseJWT(JWTSecret, resp[r].token, resp[r].token[1].exp - TokenTTL).ok
        /\ ParseJWT(JWTSecret, resp[r].token, resp[r].token[1].exp - TokenTTL).claims
            = [userID |-> 2, role |-> DefaultRole, walletType |-> vreq[r].walletType,
               address |-> vreq[r].address]

\* the wallet and nonce the probed request names, as Verify normalizes them
ProbedWallet ==
    LET wt == NormalizeWalletType(probe.req.WalletType).val
    IN  Identity(wt, NormalizeAddress(wt, probe.req.Address).val)

\* C18: for either wallet scheme, a signature made with the named wallet's key
\* over a message verifies for that wallet and message, and passes Verify's
\* signature check when the message is an accepted rendering of the nonce; the same
\* signature with any one byte flipped does not verify and is answered 401
\* invalid_signature.
C18_SignVerifyByteFlip ==
    ReachedSignatureCheck =>
        \A sep \in Separators :
            LET msg == Message(sep, probe.req.Nonce)
                sig == Sign(ProbedWallet, msg)
            IN  /\ probe.req.Signature = sig =>
                    /\ VerifySignature(ProbedWallet.walletType, ProbedWallet.address, msg,
                                       probe.req.Signature, probe.req.PublicKey)
                    /\ sep \in {"newline", "escaped"} => probe.out.error = ""
                /\ \A i \in 1..SigLen :
                    probe.req.Signature = FlipByte(sig, i) =>
                        /\ ~VerifySignature(ProbedWallet.walletType, ProbedWallet.address,
                                            msg, probe.req.Signature, probe.req.PublicKey)
                        /\ probe.out.error = "invalid_signature"
                        /\ probe.out.status = StatusUnauthorized

\* the solana wallet's signature over the canonical message, last byte flipped
C18_Witness ==
    /\ ReachedSignatureCheck
    /\ ProbedWallet.walletType = "solana"
    /\ probe.req.Signature
        = FlipByte(Sign(ProbedWallet, LoginMessage(probe.req.Nonce)), SigLen)
    /\ probe.out.error = "invalid_signature"

\* C19: for every wallet type and address the handlers accept, normalizing the
\* normalized address succeeds and returns it unchanged; so does the address
\* Verify carries past its checks.
C19_NormalizeAddressIdempotent ==
    LET wt == NormalizeWalletType(probe.req.WalletType)
        once == NormalizeAddress(wt.val, probe.req.Address)
    IN  /\ (probe.done /\ wt.ok /\ once.ok) =>
                NormalizeAddress(wt.val, once.val) = [ok |-> TRUE, val |-> once.val]
        /\ (probe.done /\ probe.out.error = "") =>
                NormalizeAddress(probe.out.walletType, probe.out.address)
                    = [ok |-> TRUE, val |-> probe.out.address]

\* an upper-case spelling of an evm address, which normalization changes
C19_Witness ==
    /\ probe.done
    /\ probe.out.error = ""
    /\ probe.out.walletType = "evm"
    /\ probe.req.Address # probe.out.address
    /\ NormalizeAddress("evm", probe.out.address).val = probe.out.address

\* two spellings of one logical wallet: equal up to the case of their letters
SameLogical(s1, s2) ==
    /\ LowerWalletType(s1[1]) = LowerWalletType(s2[1])
    /\ Len(s1[2]) = Len(s2[2])
    /\ \A i \in 1..Len(s1[2]) : LowerChar(s1[2][i]) = LowerChar(s2[2][i])

\* C20: a Verify whose transaction finds an unconsumed, unexpired nonce that was
\* asked for under a spelling of the same logical wallet consumes it and commits
\* (unless storage fails), whichever spellings the two requests used; and logins
\* under spellings of the same logical wallet return the same user and wallet, for
\* which one User and one WalletLink exist.
C20_SpellingsAreOneIdentity ==
    [][/\ \A r \in Reqs :
            ( /\ Consumes(r)
              /\ \E k \in RowsOf(r) : /\ ~nonces[k].used
                                      /\ now < nonces[k].expiresAt
                                      /\ SameLogical(asked.nonce[k], asked.verify[r]) ) =>
                (resp'[r].fault = "none" =>
                    /\ resp'[r].committed
                    /\ resp'[r].error \in {"", "token_issue_failed"}
                    /\ \E k \in RowsOf(r) : ~nonces[k].used /\ nonces'[k].used)
       /\ \A r \in Reqs, q \in Reqs :
            ( /\ resp'[r].status = StatusOK
              /\ resp'[q].status = StatusOK
              /\ SameLogical(asked'.verify[r], asked'.verify[q]) ) =>
                /\ resp'[r].user = resp'[q].user
                /\ resp'[r].wallet = resp'[q].wallet
       /\ Len(asked'.nonce) = Len(nonces')
       /\ Len(users') <= 1
       /\ Cardinality(links') <= 1
      ]_vars

\* request 1 logged in under a spelling whose wallet type and address both differ
\* from the spelling its nonce was asked for, request 2 under yet another spelling,
\* and both got the one user
C20_Witness ==
    /\ resp[1].status = StatusOK
    /\ resp[2].status = StatusOK
    /\ asked.verify[1] # asked.verify[2]
    /\ \E k \in RowsOf(1) : /\ asked.nonce[k][1] # asked.verify[1][1]
                            /\ asked.nonce[k][2] # asked.verify[1][2]
    /\ resp[1].user = resp[2].user
    /\ Len(users) = 1
    /\ Cardinality(links) = 1

\* ------------------------------------------------------------------ C21
\* the rows of the nonce table a Verify could still consume at this time
LiveRows == {k \in 1..Len(nonces) : ~nonces[k].used /\ now < nonces[k].expiresAt}

SameOwner(k1, k2) ==
    /\ nonces[k1].walletType = nonces[k2].walletType
    /\ nonces[k1].address = nonces[k2].address

C22_DecryptionFailureLogged ==
    (MeAnswered /\ me.linkErr = "decryption_failed") => me.logs # <<>>

\* ------------------------------------------------------------------ C23
\* the error codes Verify returns before auth.go:113
EarlyErrors ==
    {"db_not_configured", "jwt_not_configured", "invalid_json", "invalid_wallet_type",
     "invalid_address", "missing_nonce_or_signature", "invalid_signature"}

\* C23: the step that answers a Verify request with db_not_configured,
\* jwt_not_configured, invalid_json, invalid_wallet_type, invalid_address,
\* missing_nonce_or_signature or invalid_signature leaves nonces, users and
\* wallet links as they were and has not run the transaction; on a server without
\* a JWT secret no Verify request ever consumes a nonce or writes a user or link.
C23_EarlyErrorsLeaveStore ==
    [][/\ \A r \in Reqs :
            (resp'[r] # resp[r] /\ resp'[r].error \in EarlyErrors) =>
                /\ ~resp'[r].dbAccess
                /\ ~resp'[r].committed
                /\ pc[r] = "idle"
                /\ UNCHANGED <<nonces, users, links>>
       /\ JWTSecret = <<>> =>
                /\ UNCHANGED <<users, links>>
                /\ \A k \in 1..Len(nonces) : nonces'[k] = nonces[k]
                /\ \A r \in Reqs : pc'[r] # "consume"
      ]_vars

\* a server with storage and without a JWT secret issued a nonce and refused both
\* Verify requests; the nonce is still unconsumed
C23_Witness ==
    /\ db = "pool"
    /\ JWTSecret = <<>>
    /\ Len(nonces) >= 1
    /\ \A k \in 1..Len(nonces) : ~nonces[k].used
    /\ \A r \in Reqs : resp[r].error = "jwt_not_configured" /\ ~resp[r].dbAccess
    /\ users = <<>> /\ links = {}

\* ------------------------------------------------------------------ C24
\* C24: a Verify whose transaction committed and which then could not issue its
\* token answers 500 token_issue_failed without a token; the nonce it named is
\* consumed and the wallet's link and user are in the store; a later Verify with
\* the same nonce is refused, with invalid_or_expired_nonce unless storage fails.
C24_TokenFailureKeepsCommit ==
    [][/\ \A r \in Reqs :
            (Consumes(r) /\ resp'[r].committed /\ resp'[r].status # StatusOK) =>
                /\ resp'[r].status = StatusInternalServerError
                /\ resp'[r].error = "token_issue_failed"
                /\ resp'[r].token = NoToken
                /\ resp'[r].user = NoUser
                /\ \E k \in RowsOf(r) :
                    /\ OwnedBy(k, r)
                    /\ ~nonces[k].used
                    /\ nonces' = [nonces EXCEPT ![k].used = TRUE]
                /\ \E l \in links' :
                    /\ l.walletType = vreq[r].walletType
                    /\ l.address = vreq[r].address
                    /\ l.userID \in 1..Len(users')
       /\ \A r \in Reqs, q \in Reqs :
            ( /\ Consumes(q)
              /\ Done(r)
              /\ resp[r].error = "token_issue_failed"
              /\ vreq[r].nonce = vreq[q].nonce ) =>
                /\ resp'[q].status # StatusOK
                /\ resp'[q].token = NoToken
                /\ resp'[q].error \in {"invalid_or_expired_nonce", "auth_failed"}
                /\ resp'[q].error = "auth_failed" => resp'[q].fault # "none"
                /\ UNCHANGED <<nonces, users, links>>
      ]_vars

\* request 1 committed and got no token; request 2 then came with the same nonce
\* and the wallet's signature and was refused
C24_Witness ==
    /\ resp[1].error = "token_issue_failed"
    /\ resp[1].committed
    /\ resp[2].error = "invalid_or_expired_nonce"
    /\ vreq[2].genuine
    /\ vreq[2].overlapped = {}
    /\ vreq[1].nonce = vreq[2].nonce
    /\ SameWallet(1, 2)
    /\ Len(users) = 1
    /\ \A k \in RowsOf(1) : nonces[k].used

\* ------------------------------------------------------------------ C25
\* the checks of Verify in the order of the claim, each with its status and code
OrderedCodes ==
    <<"db_not_configured", "jwt_not_configured", "invalid_json", "invalid_wallet_type",
      "invalid_address", "missing_nonce_or_signature", "invalid_signature">>

OrderedStatuses ==
    <<StatusServiceUnavailable, StatusServiceUnavailable, StatusBadRequest, StatusBadRequest,
      StatusBadRequest, StatusBadRequest, StatusUnauthorized>>

\* whether the probed request, taken alone, fails the i-th check
FailsCheck(i) ==
    LET req == probe.req
        wt == NormalizeWalletType(req.WalletType)
        ad == NormalizeAddress(wt.val, req.Address)
    IN  CASE i = 1 -> db = "nil"
          [] i = 2 -> JWTSecret = <<>>
          [] i = 3 -> ~probe.bodyOK
          [] i = 4 -> ~wt.ok
          [] i = 5 -> ~ad.ok
          [] i = 6 -> req.Nonce = <<>> \/ req.Signature = <<>>
          [] i = 7 -> ~Genuine(wt.val, ad.val, req.Nonce, req.Signature)

FailedChecks == {i \in DOMAIN OrderedCodes : FailsCheck(i)}

FirstFailed == CHOOSE i \in FailedChecks : \A j \in FailedChecks : i <= j

\* C25: the response of Verify carries the code and status of the first check, in
\* the order storage, JWT secret, body, wallet type, address, nonce and signature
\* present, signature, that the request fails, whatever later checks it would
\* fail too; a request that fails none goes on to the transaction, whose error
\* comes before token issue: token_issue_failed is answered only after a commit.
C25_FirstFailingCheckAnswers ==
    probe.done =>
        IF FailedChecks # {}
        THEN /\ Done(1)
             /\ resp[1].error = OrderedCodes[FirstFailed]
             /\ resp[1].status = OrderedStatuses[FirstFailed]
             /\ probe.out.error = OrderedCodes[FirstFailed]
             /\ ~resp[1].dbAccess
        ELSE /\ probe.out.error = ""
             /\ \/ pc[1] = "consume"
                \/ /\ Done(1)
                   /\ resp[1].dbAccess
                   /\ IF resp[1].committed
                      THEN resp[1].error \in {"", "token_issue_failed"}
                      ELSE resp[1].error \in {"invalid_or_expired_nonce", "auth_failed"}

\* a wrong signature over the nonce the wallet has already consumed is refused
\* as invalid_signature
C25_Witness ==
    /\ probe.done
    /\ Done(1)
    /\ nonces[1].used
    /\ probe.req.Nonce = nonces[1].nonce
    /\ NormalizeWalletType(probe.req.WalletType).val = nonces[1].walletType
    /\ NormalizeAddress(nonces[1].walletType, probe.req.Address).val = nonces[1].address
    /\ FailedChecks = {7}
    /\ resp[1].error = "invalid_signature"

\* ------------------------------------------------------------------ C26
\* the rows holding the nonce token of the last Nonce response
IssuedRows == {k \in 1..Len(nonces) : nonces[k].nonce = nonceResp.nonce}

\* the Verify request of the wallet of row k that signs the returned message as
\* it is and submits it with the returned nonce
SignedAsReturned(k) ==
    VerifyRequest(nonces[k].walletType, nonces[k].address, nonceResp.nonce,
                  Sign(Identity(nonces[k].walletType, nonces[k].address), nonceResp.message),
                  <<>>)

\* C26: the message of a 200 Nonce response is LoginMessage of the nonce in the
\* same response, and the wallet's signature over that message, submitted with
\* that nonce, passes the signature check of Verify.
C26_ReturnedMessageIsAccepted ==
    nonceResp.status = StatusOK =>
        /\ nonceResp.message = LoginMessage(nonceResp.nonce)
        /\ IssuedRows # {}
        /\ \A k \in IssuedRows :
            /\ SigOK(nonces[k].walletType, nonces[k].address, nonceResp.nonce,
                     SignedAsReturned(k).Signature, <<>>)
            /\ VerifyChecks(db, JWTSecret, TRUE, SignedAsReturned(k)).error
                    \in {"", "jwt_not_configured"}
            /\ JWTSecret # <<>> =>
                    VerifyChecks(db, JWTSecret, TRUE, SignedAsReturned(k))
                        = Passed(nonces[k].walletType, nonces[k].address)

\* the nonce of the last Nonce response was submitted with the wallet's
\* signature before its expiry and logged the wallet in
C26_Witness ==
    /\ nonceResp.status = StatusOK
    /\ nonceResp.message = LoginMessage(nonceResp.nonce)
    /\ \E r \in Reqs :
        /\ resp[r].status = StatusOK
        /\ vreq[r].nonce = nonceResp.nonce
        /\ vreq[r].genuine
        /\ \E k \in IssuedRows : OwnedBy(k, r) /\ nonces[k].used

\* ------------------------------------------------------------------ C27
\* the keys of the github object built from the provider's profile p
LiveKeys(p) ==
    {"login", "avatar_url"}
        \cup (IF p.Name # "" THEN {"name"} ELSE {})
        \cup (IF p.Email # "" THEN {"email"} ELSE {})
        \cup (IF p.Location # "" THEN {"location"} ELSE {})
        \cup (IF p.Bio # "" THEN {"bio"} ELSE {})
        \cup (IF p.Blog # "" THEN {"website"} ELSE {})

ProfileField(key) ==
    CASE key = "login" -> "Login"
      [] key = "avatar_url" -> "AvatarURL"
      [] key = "name" -> "Name"
      [] key = "email" -> "Email"
      [] key = "location" -> "Location"
      [] key = "bio" -> "Bio"
      [] key = "website" -> "Blog"

\* C27: in a 200 response of Me the github object is the provider's profile
\* exactly when GetLinkedAccount and GetUser both succeeded: it then has login and
\* avatar_url, each of name, email, location, bio, website only when non-empty,
\* and the cached row was not queried. Otherwise the cached row was queried, the
\* github object is there exactly when the query gave a login, with that login,
\* and it has avatar_url exactly when the cached avatar is neither NULL nor "".
C27_GithubObjectSource ==
    (MeAnswered /\ me.status = StatusOK) =>
        IF me.seen.linked /\ me.seen.fetched
        THEN /\ HasGithub
             /\ DOMAIN me.body["github"] = LiveKeys(me.seen.ghUser)
             /\ \A key \in DOMAIN me.body["github"] :
                    me.body["github"][key] = me.seen.ghUser[ProfileField(key)]
             /\ ~me.cacheRead
        ELSE /\ me.cacheRead
             /\ HasGithub <=> me.seen.cache.githubLogin # <<>>
             /\ HasGithub =>
                    /\ me.body["github"]["login"] = me.seen.cache.githubLogin[1]
                    /\ DOMAIN me.body["github"] \subseteq {"login", "avatar_url"}
                    /\ "avatar_url" \in DOMAIN me.body["github"] <=>
                            /\ me.seen.cache.avatarURL # <<>>
                            /\ me.seen.cache.avatarURL[1] # ""
                    /\ "avatar_url" \in DOMAIN me.body["github"] =>
                            me.body["github"]["avatar_url"] = me.seen.cache.avatarURL[1]

\* the provider call failed for a linked user whose cached avatar is the empty
\* string: the github object has the cached login and no avatar_url
C27_Witness ==
    /\ me.status = StatusOK
    /\ me.seen.linked
    /\ ~me.seen.fetched
    /\ me.providerToken # <<>>
    /\ me.seen.cache.githubLogin # <<>>
    /\ me.seen.cache.avatarURL = <<"">>
    /\ HasGithub
    /\ DOMAIN me.body["github"] = {"login"}

\* ------------------------------------------------------------------ C28
\* the message holds none of the strings the function looks for
Unrecognized(m) == \A n \in SearchStrings : ~includes(m, n)

CategoryStrings ==
    << {<<"Network", " ", "error">>, <<"fetch">>, <<"Failed", " ", "to", " ", "fetch">>,
        <<"Unable", " ", "to", " ", "connect">>},
       {<<"Authentication", " ", "failed">>, <<"Unauthorized">>, <<"401">>},
       {<<"500">>, <<"Internal", " ", "Server", " ", "Error">>, <<"server", " ", "error">>},
       {<<"404">>, <<"Not", " ", "Found">>, <<"not", " ", "found">>},
       {<<"timeout">>, <<"Timeout">>, <<"timed", " ", "out">>},
       {<<"Invalid", " ", "response">>, <<"Invalid", " ", "response", " ", "format">>},
       {<<"API", " ", "request", " ", "failed">>, <<"request", " ", "failed">>} >>

CategoryMessages ==
    <<ConnectionMessage, SessionMessage, ServerMessage, NotFoundMessage, TimeoutMessage,
      ResponseMessage, RequestMessage>>

\* the categories the message of the argument matches
Matched ==
    {i \in DOMAIN CategoryStrings :
        \E n \in CategoryStrings[i] : includes(errorMessage(error), n)}

\* C29: for a truthy argument the function returns the message of the earliest
\* category, in the order network, authentication, server, not-found, timeout,
\* invalid-response, generic-API, that its message matches, however many it
\* matches, and the fallback message when it matches none.
C29_EarliestCategoryWins ==
    (returned.done /\ ~Falsy(error)) =>
        IF Matched = {}
        THEN returned.value = TryAgainLater
        ELSE \E i \in Matched :
                /\ \A j \in Matched : i <= j
                /\ returned.value = CategoryMessages[i]

\* a message holding "500" and "timeout" was answered as a server error, one
\* category before timeouts
C29_Witness ==
    /\ returned.done
    /\ error = Value("Error", <<"timeout", ": ", "500">>)
    /\ Matched = {3, 5}
    /\ returned.value = ServerMessage

\* ------------------------------------------------------------------ C30
\* C30: isLoading is true while fetchUser waits for getCurrentUser and false from
\* the step in which the promise settles, resolved or rejected, and stays false;
\* the step of a rejection leaves currentUser null and every form field as it
\* was, so the GitHub account line shows "Not connected / Not connected" and no
\* skeleton.
C30_LoadingEndsWhenSettled ==
    [][/\ tab'.phase \in {"rendered", "awaiting"} => tab'.isLoading
       /\ tab'.phase = "settled" =>
            /\ ~tab'.isLoading
            /\ View(tab') # "skeleton"
       /\ tab.phase = "settled" => tab'.phase = "settled"
       /\ (tab.phase = "awaiting" /\ tab'.phase = "settled") =>
            tab'.outcome \in {"resolved", "rejected"}
       /\ (tab.phase = "awaiting" /\ tab'.outcome = "rejected") =>
            /\ tab'.phase = "settled"
            /\ tab'.currentUser = <<>>
            /\ \A f \in FormFields : tab'[f] = tab[f]
            /\ View(tab') = "Not connected / Not connected"
       /\ tab'.outcome = "rejected" =>
            /\ tab'.currentUser = <<>>
            /\ View(tab') = "Not connected / Not connected"
      ]_vars

\* the user typed a first name while the fetch was awaited, the fetch was
\* rejected, and the tab shows the typed name and the not-connected line
C30_Witness ==
    /\ tab.phase = "settled"
    /\ tab.outcome = "rejected"
    /\ ~tab.isLoading
    /\ tab.currentUser = <<>>
    /\ tab.firstName = <<"typed">>
    /\ tab.logged
    /\ View(tab) = "Not connected / Not connected"

====
